---- MODULE Spec2Model ----
(***************************************************************************)
(* Persistence and reconciliation layer of the record store:               *)
(*   database.py        Database (the Entity Store) and migrate_json_to_db *)
(*   db_integration.py  the Document View Adapter (get_*_data/save_*_data) *)
(*                                                                         *)
(* The committed contents of the SQLite file are the state.  Every         *)
(* Database method ends with conn.commit() or conn.rollback(), so a method *)
(* is an operator from a store to [db |-> store', ret |-> result]; the     *)
(* statements a rollback undoes are the ones executed since the last       *)
(* commit, which the operators make explicit.                              *)
(***************************************************************************)
EXTENDS Integers, Sequences, FiniteSets, TLC

(***************************************************************************)
(* Bounds                                                                  *)
(***************************************************************************)
\* number of API calls in one behaviour; also the range of CURRENT_TIMESTAMP
MaxClock == 3

UserIds == {"100", "101", "102"}
SectIds == {"s1", "s2"}

(***************************************************************************)
(* Python / JSON values.  A JSON scalar keeps its type: 101 and "101" are  *)
(* different values for ==, in, and set membership.                        *)
(***************************************************************************)
JNone == [t |-> "none", s |-> "", n |-> 0]

JStr(x) == [t |-> "str", s |-> x, n |-> 0]

JInt(k) == [t |-> "int", s |-> "", n |-> k]

\* a float with one decimal, held in tenths: JFloat(27) is 2.7
JFloat(tenths) == [t |-> "float", s |-> "", n |-> tenths]

Abs(k) == IF k < 0 THEN 0 - k ELSE k

\* SQL NULL / a column holding Python None
NULL == "NULL"

Digit(d) ==
  CASE d = 0 -> "0" [] d = 1 -> "1" [] d = 2 -> "2" [] d = 3 -> "3"
    [] d = 4 -> "4" [] d = 5 -> "5" [] d = 6 -> "6" [] d = 7 -> "7"
    [] d = 8 -> "8" [] d = 9 -> "9"

RECURSIVE NatToStr(_)
NatToStr(k) == IF k < 10 THEN Digit(k) ELSE NatToStr(k \div 10) \o Digit(k % 10)

\* str(k) for an int
IntToStr(k) == IF k < 0 THEN "-" \o NatToStr(0 - k) ELSE NatToStr(k)

\* str(v)
PyStr(v) ==
  CASE v.t = "str" -> v.s
    [] v.t = "int" -> IntToStr(v.n)
    [] v.t = "float" ->
         (IF v.n < 0 THEN "-" ELSE "") \o NatToStr(Abs(v.n) \div 10)
           \o "." \o Digit(Abs(v.n) % 10)
    [] OTHER -> "None"

\* the text a value bound to a TEXT column is stored as (None is NULL)
SqlText(v) == IF v.t = "none" THEN NULL ELSE PyStr(v)

\* a == b between two JSON scalars
PyEq(a, b) == a = b

\* x in xs, xs a list of JSON scalars
PyIn(x, xs) == \E i \in 1..Len(xs) : PyEq(xs[i], x)

Range(f) == {f[i] : i \in DOMAIN f}

RECURSIVE SetToSeq(_)
SetToSeq(S) ==
  IF S = {} THEN <<>>
  ELSE LET x == CHOOSE y \in S : TRUE IN <<x>> \o SetToSeq(S \ {x})

(***************************************************************************)
(* The store: one field per table of Database._create_tables               *)
(***************************************************************************)
EmptyStore ==
  [users |-> <<>>, user_meta |-> {},
   inventory |-> {}, inv_seq |-> 0,
   jobs |-> <<>>, user_jobs |-> {},
   sects |-> <<>>, sect_members |-> {},
   store_items |-> <<>>,
   tournaments |-> <<>>, tournament_participants |-> {},
   closed |-> FALSE]

\* the row INSERT INTO users (user_id, cash, bank) VALUES (?, 0, 0) creates
NewUserRow(now) ==
  [cash |-> 0, bank |-> 0, job |-> NULL, last_cultivate |-> NULL,
   last_collect |-> NULL, message_count |-> 0,
   created_at |-> now, updated_at |-> now]

\* the dict get_user returns for a user it has just created or failed to read
ZeroUser(uid) ==
  [user_id |-> uid, cash |-> 0, bank |-> 0, job |-> NULL,
   last_cultivate |-> NULL, last_collect |-> NULL, message_count |-> 0]

get_user(db, user_id, now) ==
  LET uid == PyStr(user_id) IN
  IF uid \in DOMAIN db.users
    THEN [db |-> db, ret |-> ("user_id" :> uid) @@ db.users[uid]]
    ELSE [db |-> [db EXCEPT !.users = (uid :> NewUserRow(now)) @@ @],
          ret |-> ZeroUser(uid)]

\* Database.close(): the connection is closed, the tables stay as they are
close(db) == [db EXCEPT !.closed = TRUE]

\* the statements of get_user at which sqlite3 can raise
Faults == {"none", "select", "insert", "commit"}

\* self.conn.rollback(): the statements since the last commit are undone
rollback(committed, working) == committed

\* get_user with sqlite3.Error raised at the statement `fault`.  On a closed
\* connection every statement raises ProgrammingError, the rollback of the
\* except clause included, and that one is not caught.  raised is TRUE when
\* an exception leaves get_user.
get_user_under(db, user_id, now, fault) ==
  LET uid == PyStr(user_id)
      working == [db EXCEPT !.users = (uid :> NewUserRow(now)) @@ @]
      caught == [db |-> rollback(db, db), ret |-> [raised |-> FALSE, value |-> ZeroUser(uid)]]
  IN IF db.closed
       THEN [db |-> db, ret |-> [raised |-> TRUE, value |-> ZeroUser(uid)]]
     ELSE IF fault = "select" THEN caught
     ELSE IF uid \in DOMAIN db.users
       THEN [db |-> db,
             ret |-> [raised |-> FALSE, value |-> ("user_id" :> uid) @@ db.users[uid]]]
     ELSE IF fault = "insert" THEN caught
     ELSE IF fault = "commit"
       THEN [db |-> rollback(db, working),
             ret |-> [raised |-> FALSE, value |-> ZeroUser(uid)]]
     ELSE [db |-> working, ret |-> [raised |-> FALSE, value |-> ZeroUser(uid)]]

update_user(db, user_id, data, now) ==
  LET uid == PyStr(user_id)
      g == get_user(db, user_id, now)
      fields == {k \in DOMAIN data : k \in DOMAIN g.ret /\ k # "user_id"}
      row == g.db.users[uid]
      newrow == [c \in DOMAIN row |->
                   IF c \in fields THEN data[c]
                   ELSE IF c = "updated_at" THEN now ELSE row[c]]
  IN IF fields = {}
       THEN [db |-> g.db, ret |-> TRUE]
       ELSE [db |-> [g.db EXCEPT !.users[uid] = newrow], ret |-> TRUE]

\* the integers int(x) accepts as text in this model
ParseRange == -9..9

\* int(v): ok is FALSE when int() raises ValueError or TypeError; a float is
\* truncated toward zero
PyInt(v) ==
  CASE v.t = "int" -> [ok |-> TRUE, n |-> v.n]
    [] v.t = "float" ->
         [ok |-> TRUE,
          n |-> IF v.n < 0 THEN 0 - (Abs(v.n) \div 10) ELSE v.n \div 10]
    [] v.t = "str" ->
         IF \E k \in ParseRange : IntToStr(k) = v.s
           THEN [ok |-> TRUE, n |-> CHOOSE k \in ParseRange : IntToStr(k) = v.s]
           ELSE [ok |-> FALSE, n |-> 0]
    [] OTHER -> [ok |-> FALSE, n |-> 0]

Max(a, b) == IF a >= b THEN a ELSE b

\* faulty variant of add_cash: the new balance is not clamped at zero
add_cash_unclamped(db, user_id, amount, now) ==
  LET parsed == PyInt(amount)
      amt == IF parsed.ok THEN parsed.n ELSE 0
      g == get_user(db, user_id, now)
      new_cash == g.ret.cash + amt
  IN update_user(g.db, user_id, [cash |-> new_cash], now)

add_cash(db, user_id, amount, now) ==
  LET parsed == PyInt(amount)
      amt == IF parsed.ok THEN parsed.n ELSE 0
      g == get_user(db, user_id, now)
      new_cash == Max(0, g.ret.cash + amt)
  IN update_user(g.db, user_id, [cash |-> new_cash], now)

set_cash(db, user_id, amount, now) ==
  LET parsed == PyInt(amount)
      amt == IF parsed.ok THEN parsed.n ELSE 0
  IN update_user(db, user_id, [cash |-> Max(0, amt)], now)

add_bank(db, user_id, amount, now) ==
  LET parsed == PyInt(amount)
      amt == IF parsed.ok THEN parsed.n ELSE 0
      g == get_user(db, user_id, now)
      new_bank == Max(0, g.ret.bank + amt)
  IN update_user(g.db, user_id, [bank |-> new_bank], now)

set_bank(db, user_id, amount, now) ==
  LET parsed == PyInt(amount)
      amt == IF parsed.ok THEN parsed.n ELSE 0
  IN update_user(db, user_id, [bank |-> Max(0, amt)], now)

(***************************************************************************)
(* User metadata.  meta_value holds JSON text; the texts and the values   *)
(* they stand for are listed in JsonCodec, every other text is not JSON.   *)
(***************************************************************************)
\* a value json.dumps accepts: none is TRUE for None, items are the pairs of
\* a dict
PyNone == [none |-> TRUE, items |-> <<>>]

PyDict(items) == [none |-> FALSE, items |-> items]

JsonCodec ==
  {[text |-> "null", value |-> PyNone],
   [text |-> "{}", value |-> PyDict(<<>>)],
   [text |-> "{\"daily\": 1}", value |-> PyDict(<<[k |-> "daily", v |-> 1]>>)]}

\* json.dumps(value)
json_dumps(value) == (CHOOSE c \in JsonCodec : c.value = value).text

\* json.loads(text): raised is TRUE when it raises json.JSONDecodeError
json_loads(text) ==
  IF \E c \in JsonCodec : c.text = text
    THEN [raised |-> FALSE, value |-> (CHOOSE c \in JsonCodec : c.text = text).value]
    ELSE [raised |-> TRUE, value |-> PyNone]

\* raised is TRUE when an exception leaves get_user_meta: the except clause
\* catches sqlite3.Error only
get_user_meta(db, user_id, meta_key) ==
  LET uid == PyStr(user_id)
      rows == {r \in db.user_meta : r.user_id = uid /\ r.meta_key = meta_key}
  IN IF rows # {}
       THEN json_loads((CHOOSE r \in rows : TRUE).meta_value)
       ELSE [raised |-> FALSE, value |-> PyNone]

\* faulty variant of set_user_meta: the row is replaced by meta_key alone, so
\* the rows other users hold under the key are replaced as well
set_user_meta_by_key(db, user_id, meta_key, meta_value, now) ==
  LET uid == PyStr(user_id)
      g == get_user(db, user_id, now)
      row == [user_id |-> uid, meta_key |-> meta_key, meta_value |-> json_dumps(meta_value)]
      others == {r \in g.db.user_meta : r.meta_key # meta_key}
  IN [db |-> [g.db EXCEPT !.user_meta = others \cup {row}], ret |-> TRUE]

set_user_meta(db, user_id, meta_key, meta_value, now) ==
  LET uid == PyStr(user_id)
      g == get_user(db, user_id, now)
      row == [user_id |-> uid, meta_key |-> meta_key, meta_value |-> json_dumps(meta_value)]
      others == {r \in g.db.user_meta : ~(r.user_id = uid /\ r.meta_key = meta_key)}
  IN [db |-> [g.db EXCEPT !.user_meta = others \cup {row}], ret |-> TRUE]

(***************************************************************************)
(* Inventory                                                               *)
(***************************************************************************)
get_inventory(db, user_id) ==
  {r \in db.inventory : r.user_id = PyStr(user_id)}

\* faulty variant of FirstRow: the scan runs in descending rowid order
LastRow(rows) == CHOOSE r \in rows : \A q \in rows : r.id >= q.id

\* cursor.fetchone() on a scan of the inventory table: the row with the
\* lowest rowid among the matching rows
FirstRow(rows) == CHOOSE r \in rows : \A q \in rows : r.id <= q.id

\* faulty variant of add_inventory_item: a row is inserted even when the
\* triple is already stored
add_inventory_item_duplicating(db, user_id, item_name, quantity, rarity, metadata, now) ==
  LET uid == PyStr(user_id)
      g == get_user(db, user_id, now)
      inserted == [id |-> g.db.inv_seq + 1, user_id |-> uid, item_name |-> item_name,
                   quantity |-> quantity, rarity |-> rarity, metadata |-> metadata]
  IN [db |-> [g.db EXCEPT !.inventory = @ \cup {inserted}, !.inv_seq = @ + 1],
      ret |-> TRUE]

add_inventory_item(db, user_id, item_name, quantity, rarity, metadata, now) ==
  LET uid == PyStr(user_id)
      g == get_user(db, user_id, now)
      matching == {r \in g.db.inventory :
                     r.user_id = uid /\ r.item_name = item_name /\ r.rarity = rarity}
      existing_item == FirstRow(matching)
      updated == [existing_item EXCEPT !.quantity = @ + quantity]
      inserted == [id |-> g.db.inv_seq + 1, user_id |-> uid, item_name |-> item_name,
                   quantity |-> quantity, rarity |-> rarity, metadata |-> metadata]
  IN IF matching # {}
       THEN [db |-> [g.db EXCEPT !.inventory = (@ \ {existing_item}) \cup {updated}],
             ret |-> TRUE]
       ELSE [db |-> [g.db EXCEPT !.inventory = @ \cup {inserted},
                                 !.inv_seq = @ + 1],
             ret |-> TRUE]

\* faulty variant of remove_inventory_item: the row is deleted only when the
\* quantity removed exceeds the stored one
remove_inventory_item_strict(db, user_id, item_name, quantity, rarity) ==
  LET uid == PyStr(user_id)
      matching == {r \in db.inventory :
                     /\ r.user_id = uid
                     /\ r.item_name = item_name
                     /\ (rarity # "" => r.rarity = rarity)}
      existing_item == FirstRow(matching)
      updated == [existing_item EXCEPT !.quantity = @ - quantity]
  IN IF matching = {} THEN [db |-> db, ret |-> FALSE]
     ELSE IF existing_item.quantity < quantity
       THEN [db |-> [db EXCEPT !.inventory = @ \ {existing_item}], ret |-> TRUE]
       ELSE [db |-> [db EXCEPT !.inventory = (@ \ {existing_item}) \cup {updated}],
             ret |-> TRUE]

\* rarity = "" stands for the default rarity=None
remove_inventory_item(db, user_id, item_name, quantity, rarity) ==
  LET uid == PyStr(user_id)
      matching == {r \in db.inventory :
                     /\ r.user_id = uid
                     /\ r.item_name = item_name
                     /\ (rarity # "" => r.rarity = rarity)}
      existing_item == FirstRow(matching)
      updated == [existing_item EXCEPT !.quantity = @ - quantity]
  IN IF matching = {} THEN [db |-> db, ret |-> FALSE]
     ELSE IF existing_item.quantity <= quantity
       THEN [db |-> [db EXCEPT !.inventory = @ \ {existing_item}], ret |-> TRUE]
       ELSE [db |-> [db EXCEPT !.inventory = (@ \ {existing_item}) \cup {updated}],
             ret |-> TRUE]

(***************************************************************************)
(* Jobs and store items                                                    *)
(***************************************************************************)
get_jobs(db) == db.jobs

set_job(db, job_name, min_pay, max_pay) ==
  [db |-> [db EXCEPT !.jobs = (job_name :> [min_pay |-> min_pay, max_pay |-> max_pay])
                                @@ [j \in DOMAIN @ \ {job_name} |-> @[j]]],
   ret |-> TRUE]

UserJobColumns == {"xp", "rank", "last_work"}

update_user_job(db, user_id, job_name, data, now) ==
  LET uid == PyStr(user_id)
      g == get_user(db, user_id, now)
      rows == {r \in g.db.user_jobs : r.user_id = uid /\ r.job_name = job_name}
      old == CHOOSE r \in rows : TRUE
      fields == DOMAIN data \ {"user_id", "job_name"}
      updated == [c \in DOMAIN old |-> IF c \in fields THEN data[c] ELSE old[c]]
      inserted == [user_id |-> uid, job_name |-> job_name,
                   xp |-> IF "xp" \in DOMAIN data THEN data.xp ELSE 0,
                   rank |-> IF "rank" \in DOMAIN data THEN data.rank ELSE "apprentice",
                   last_work |-> IF "last_work" \in DOMAIN data THEN data.last_work ELSE NULL]
  IN IF ~(fields \subseteq UserJobColumns) THEN [db |-> g.db, ret |-> FALSE]
     ELSE IF rows # {}
       THEN IF fields = {} THEN [db |-> g.db, ret |-> TRUE]
            ELSE [db |-> [g.db EXCEPT !.user_jobs = (@ \ {old}) \cup {updated}],
                  ret |-> TRUE]
       ELSE [db |-> [g.db EXCEPT !.user_jobs = @ \cup {inserted}], ret |-> TRUE]

\* the stored row, or a record built in memory; nothing is written
get_user_job(db, user_id, job_name) ==
  LET uid == PyStr(user_id)
      rows == {r \in db.user_jobs : r.user_id = uid /\ r.job_name = job_name}
  IN IF rows # {}
       THEN CHOOSE r \in rows : TRUE
       ELSE [user_id |-> uid, job_name |-> job_name, xp |-> 0,
             rank |-> "apprentice", last_work |-> NULL]

get_store_item(db, item_name) ==
  IF item_name \in DOMAIN db.store_items
    THEN [found |-> TRUE, row |-> db.store_items[item_name]]
    ELSE [found |-> FALSE, row |-> <<>>]

set_store_item(db, item_name, price, description, stock, min_rank, rarity, metadata) ==
  LET row == [price |-> price, description |-> description, stock |-> stock,
              min_rank |-> min_rank, rarity |-> rarity, metadata |-> metadata]
  IN [db |-> [db EXCEPT !.store_items =
                   (item_name :> row) @@ [i \in DOMAIN @ \ {item_name} |-> @[i]]],
      ret |-> TRUE]

\* faulty variant of update_store_item_stock: the unlimited stock -1 is
\* updated like any other stock
update_store_item_stock_always(db, item_name, change) ==
  LET item == get_store_item(db, item_name) IN
  IF ~item.found THEN [db |-> db, ret |-> FALSE]
  ELSE [db |-> [db EXCEPT !.store_items[item_name].stock = Max(0, item.row.stock + change)],
        ret |-> TRUE]

\* faulty variant of update_store_item_stock: the new stock is not clamped at 0
update_store_item_stock_unclamped(db, item_name, change) ==
  LET item == get_store_item(db, item_name) IN
  IF ~item.found THEN [db |-> db, ret |-> FALSE]
  ELSE IF item.row.stock # -1
    THEN [db |-> [db EXCEPT !.store_items[item_name].stock = item.row.stock + change],
          ret |-> TRUE]
    ELSE [db |-> db, ret |-> TRUE]

update_store_item_stock(db, item_name, change) ==
  LET item == get_store_item(db, item_name) IN
  IF ~item.found THEN [db |-> db, ret |-> FALSE]
  ELSE IF item.row.stock # -1
    THEN [db |-> [db EXCEPT !.store_items[item_name].stock = Max(0, item.row.stock + change)],
          ret |-> TRUE]
    ELSE [db |-> db, ret |-> TRUE]

(***************************************************************************)
(* Sects                                                                   *)
(***************************************************************************)
SectColumns == {"name", "leader_id", "description", "level", "wealth", "max_members", "created_at"}

get_sect(db, sect_id) ==
  IF sect_id \in DOMAIN db.sects
    THEN [found |-> TRUE, row |-> db.sects[sect_id]]
    ELSE [found |-> FALSE, row |-> <<>>]

create_sect(db, sect_id, name, leader_id, description, level, wealth, now) ==
  LET leader == PyStr(leader_id)
      g == get_user(db, leader_id, now)
      row == [name |-> name, leader_id |-> leader, description |-> description,
              level |-> level, wealth |-> wealth, max_members |-> 10,
              created_at |-> now]
      member == [sect_id |-> sect_id, user_id |-> leader, role |-> "leader",
                 joined_at |-> now]
  IN IF sect_id \in DOMAIN g.db.sects
       THEN [db |-> g.db, ret |-> FALSE]
     ELSE IF \E m \in g.db.sect_members :
                m.sect_id = sect_id /\ m.user_id = leader
       THEN [db |-> g.db, ret |-> FALSE]
     ELSE [db |-> [g.db EXCEPT !.sects = (sect_id :> row) @@ @,
                               !.sect_members = @ \cup {member}],
           ret |-> TRUE]

update_sect(db, sect_id, data) ==
  LET fields == DOMAIN data \ {"sect_id"}
      row == db.sects[sect_id]
      newrow == [c \in DOMAIN row |-> IF c \in fields THEN data[c] ELSE row[c]]
  IN IF ~get_sect(db, sect_id).found THEN [db |-> db, ret |-> FALSE]
     ELSE IF fields = {} THEN [db |-> db, ret |-> TRUE]
     ELSE IF ~(fields \subseteq SectColumns) THEN [db |-> db, ret |-> FALSE]
     ELSE [db |-> [db EXCEPT !.sects[sect_id] = newrow], ret |-> TRUE]

get_sect_members(db, sect_id) ==
  {m \in db.sect_members : m.sect_id = sect_id /\ m.user_id \in DOMAIN db.users}

\* faulty variant of add_sect_member: INSERT OR IGNORE, a stored membership
\* keeps its role
add_sect_member_keeping(db, sect_id, user_id, role, now) ==
  LET uid == PyStr(user_id)
      g == get_user(db, user_id, now)
      member == [sect_id |-> sect_id, user_id |-> uid, role |-> role,
                 joined_at |-> now]
      stored == \E m \in g.db.sect_members : m.sect_id = sect_id /\ m.user_id = uid
  IN IF ~get_sect(g.db, sect_id).found
       THEN [db |-> g.db, ret |-> FALSE]
     ELSE IF stored THEN [db |-> g.db, ret |-> TRUE]
     ELSE [db |-> [g.db EXCEPT !.sect_members = @ \cup {member}], ret |-> TRUE]

add_sect_member(db, sect_id, user_id, role, now) ==
  LET uid == PyStr(user_id)
      g == get_user(db, user_id, now)
      member == [sect_id |-> sect_id, user_id |-> uid, role |-> role,
                 joined_at |-> now]
      others == {m \in g.db.sect_members : ~(m.sect_id = sect_id /\ m.user_id = uid)}
  IN IF ~get_sect(g.db, sect_id).found
       THEN [db |-> g.db, ret |-> FALSE]
       ELSE [db |-> [g.db EXCEPT !.sect_members = others \cup {member}],
             ret |-> TRUE]

remove_sect_member(db, sect_id, user_id) ==
  LET uid == PyStr(user_id) IN
  [db |-> [db EXCEPT !.sect_members =
                 {m \in @ : ~(m.sect_id = sect_id /\ m.user_id = uid)}],
   ret |-> TRUE]

(***************************************************************************)
(* Tournaments                                                             *)
(***************************************************************************)
TournamentColumns ==
  {"host_id", "title", "description", "status", "created_at", "winner_id", "reward_data"}

get_tournament(db, tournament_id) ==
  IF tournament_id \in DOMAIN db.tournaments
    THEN [found |-> TRUE, row |-> db.tournaments[tournament_id]]
    ELSE [found |-> FALSE, row |-> <<>>]

\* faulty variant of create_tournament: INSERT OR REPLACE, a stored tournament
\* of the same id is overwritten
create_tournament_replacing(db, tournament_id, host_id, title, description, reward_data, now) ==
  LET g == get_user(db, host_id, now)
      row == [host_id |-> PyStr(host_id), title |-> title, description |-> description,
              status |-> "recruiting", created_at |-> now, winner_id |-> NULL,
              reward_data |-> reward_data]
  IN [db |-> [g.db EXCEPT !.tournaments =
                    (tournament_id :> row) @@ [t \in DOMAIN @ \ {tournament_id} |-> @[t]]],
      ret |-> TRUE]

create_tournament(db, tournament_id, host_id, title, description, reward_data, now) ==
  LET g == get_user(db, host_id, now)
      row == [host_id |-> PyStr(host_id), title |-> title, description |-> description,
              status |-> "recruiting", created_at |-> now, winner_id |-> NULL,
              reward_data |-> reward_data]
  IN IF tournament_id \in DOMAIN g.db.tournaments
       THEN [db |-> g.db, ret |-> FALSE]
       ELSE [db |-> [g.db EXCEPT !.tournaments = (tournament_id :> row) @@ @],
             ret |-> TRUE]

\* faulty variant of update_tournament: the existence of the row is not
\* checked, and the UPDATE that matches no row counts as a success
update_tournament_unchecked(db, tournament_id, data) ==
  LET fields == DOMAIN data \ {"tournament_id"}
      found == get_tournament(db, tournament_id).found
      row == db.tournaments[tournament_id]
      newrow == [c \in DOMAIN row |-> IF c \in fields THEN data[c] ELSE row[c]]
  IN IF fields = {} THEN [db |-> db, ret |-> TRUE]
     ELSE IF ~(fields \subseteq TournamentColumns) THEN [db |-> db, ret |-> FALSE]
     ELSE IF ~found THEN [db |-> db, ret |-> TRUE]
     ELSE [db |-> [db EXCEPT !.tournaments[tournament_id] = newrow], ret |-> TRUE]

update_tournament(db, tournament_id, data) ==
  LET fields == DOMAIN data \ {"tournament_id"}
      row == db.tournaments[tournament_id]
      newrow == [c \in DOMAIN row |-> IF c \in fields THEN data[c] ELSE row[c]]
  IN IF ~get_tournament(db, tournament_id).found THEN [db |-> db, ret |-> FALSE]
     ELSE IF fields = {} THEN [db |-> db, ret |-> TRUE]
     ELSE IF ~(fields \subseteq TournamentColumns) THEN [db |-> db, ret |-> FALSE]
     ELSE [db |-> [db EXCEPT !.tournaments[tournament_id] = newrow], ret |-> TRUE]

get_tournament_participants(db, tournament_id) ==
  {p \in db.tournament_participants : p.tournament_id = tournament_id}

add_tournament_participant(db, tournament_id, participant_id, is_bot, bot_name, now) ==
  LET pid == PyStr(participant_id)
      db1 == IF is_bot THEN db ELSE get_user(db, participant_id, now).db
      row == [tournament_id |-> tournament_id, participant_id |-> pid,
              joined_at |-> now, is_bot |-> is_bot, bot_name |-> bot_name]
      others == {p \in db1.tournament_participants :
                   ~(p.tournament_id = tournament_id /\ p.participant_id = pid)}
  IN IF ~get_tournament(db, tournament_id).found
       THEN [db |-> db, ret |-> FALSE]
       ELSE [db |-> [db1 EXCEPT !.tournament_participants = others \cup {row}],
             ret |-> TRUE]

remove_tournament_participant(db, tournament_id, participant_id) ==
  LET pid == PyStr(participant_id) IN
  [db |-> [db EXCEPT !.tournament_participants =
                 {p \in @ : ~(p.tournament_id = tournament_id /\ p.participant_id = pid)}],
   ret |-> TRUE]

(***************************************************************************)
(* Legacy documents.  A document is a JSON object: the list of its         *)
(* (key, value) pairs in iteration order.  A value that is an object       *)
(* carries the set of keys it has; a value that is not an object (isdict   *)
(* FALSE) makes value.get(...) raise AttributeError.                       *)
(***************************************************************************)
Get(e, key, default) == IF key \in e.keys THEN e[key] ELSE default

DocKeys(data) == {data[i].k : i \in 1..Len(data)}

SectEntryKeys == {"name", "leader", "description", "level", "wealth", "members"}

MalformedSect ==
  [isdict |-> FALSE, keys |-> {}, name |-> "", leader |-> JNone,
   description |-> "", level |-> 0, wealth |-> 0, members |-> <<>>]

(***************************************************************************)
(* db_integration.get_sects_data                                           *)
(***************************************************************************)
\* faulty variant of SectEntryOf: the leader is left out of the members list
SectEntryOfWithoutLeader(db, sect_id) ==
  LET sect_data == get_sect(db, sect_id).row
      members == {m \in get_sect_members(db, sect_id) : m.role # "leader"}
  IN [isdict |-> TRUE, keys |-> SectEntryKeys,
      name |-> sect_data.name,
      leader |-> IF sect_data.leader_id = NULL THEN JNone ELSE JStr(sect_data.leader_id),
      description |-> sect_data.description,
      level |-> sect_data.level,
      wealth |-> sect_data.wealth,
      members |-> SetToSeq({JStr(m.user_id) : m \in members})]

SectEntryOf(db, sect_id) ==
  LET sect_data == get_sect(db, sect_id).row
      members == get_sect_members(db, sect_id)
  IN [isdict |-> TRUE, keys |-> SectEntryKeys,
      name |-> sect_data.name,
      leader |-> IF sect_data.leader_id = NULL THEN JNone ELSE JStr(sect_data.leader_id),
      description |-> sect_data.description,
      level |-> sect_data.level,
      wealth |-> sect_data.wealth,
      members |-> SetToSeq({JStr(m.user_id) : m \in members})]

get_sects_data(db) ==
  LET sect_ids == SetToSeq(DOMAIN db.sects)
  IN [i \in 1..Len(sect_ids) |-> [k |-> sect_ids[i], v |-> SectEntryOf(db, sect_ids[i])]]

(***************************************************************************)
(* db_integration.save_sects_data                                          *)
(***************************************************************************)
\* faulty variant of AddNewSectMembers: every listed member is upserted,
\* whether or not it is already stored
RECURSIVE AddNewSectMembersUnchecked(_, _, _, _, _, _)
AddNewSectMembersUnchecked(db, sect_id, e, current_member_ids, i, now) ==
  IF i > Len(e.members) THEN db
  ELSE LET member_id == e.members[i]
           role == IF PyEq(member_id, Get(e, "leader", JNone)) THEN "leader" ELSE "member"
           db1 == add_sect_member(db, sect_id, member_id, role, now).db
       IN AddNewSectMembersUnchecked(db1, sect_id, e, current_member_ids, i + 1, now)

\* for member_id in sect_data["members"]: if member_id not in current_member_ids: add
RECURSIVE AddNewSectMembers(_, _, _, _, _, _)
AddNewSectMembers(db, sect_id, e, current_member_ids, i, now) ==
  IF i > Len(e.members) THEN db
  ELSE LET member_id == e.members[i]
           role == IF PyEq(member_id, Get(e, "leader", JNone)) THEN "leader" ELSE "member"
           known == member_id.t = "str" /\ member_id.s \in current_member_ids
           db1 == IF known THEN db
                  ELSE add_sect_member(db, sect_id, member_id, role, now).db
       IN AddNewSectMembers(db1, sect_id, e, current_member_ids, i + 1, now)

\* for member in current_members: if member["user_id"] not in sect_data["members"]: remove
RECURSIVE RemoveMissingSectMembers(_, _, _, _, _)
RemoveMissingSectMembers(db, sect_id, e, current_members, i) ==
  IF i > Len(current_members) THEN db
  ELSE LET uid == current_members[i].user_id
           db1 == IF PyIn(JStr(uid), e.members) THEN db
                  ELSE remove_sect_member(db, sect_id, JStr(uid)).db
       IN RemoveMissingSectMembers(db1, sect_id, e, current_members, i + 1)

\* the branch `if sect_id in existing_sects`
SaveExistingSect(db, sect_id, e, now) ==
  LET update_data == [name |-> Get(e, "name", "Sect " \o sect_id),
                      leader_id |-> SqlText(Get(e, "leader", JNone)),
                      description |-> Get(e, "description", ""),
                      level |-> Get(e, "level", 1),
                      wealth |-> Get(e, "wealth", 0)]
      db1 == update_sect(db, sect_id, update_data).db
      current_members == get_sect_members(db1, sect_id)
      current_member_ids == {m.user_id : m \in current_members}
      db2 == AddNewSectMembers(db1, sect_id, e, current_member_ids, 1, now)
  IN IF "members" \in e.keys
       THEN RemoveMissingSectMembers(db2, sect_id, e, SetToSeq(current_members), 1)
       ELSE db1

\* for member_id in sect_data["members"]: if member_id != sect_data.get("leader"): add
RECURSIVE AddListedSectMembers(_, _, _, _, _)
AddListedSectMembers(db, sect_id, e, i, now) ==
  IF i > Len(e.members) THEN db
  ELSE LET member_id == e.members[i]
           db1 == IF PyEq(member_id, Get(e, "leader", JNone)) THEN db
                  ELSE add_sect_member(db, sect_id, member_id, "member", now).db
       IN AddListedSectMembers(db1, sect_id, e, i + 1, now)

\* the branch `else` (create new sect)
SaveNewSect(db, sect_id, e, now) ==
  LET db1 == create_sect(db, sect_id,
                         Get(e, "name", "Sect " \o sect_id),
                         Get(e, "leader", JStr("0")),
                         Get(e, "description", ""),
                         Get(e, "level", 1),
                         Get(e, "wealth", 0), now).db
  IN IF "members" \in e.keys
       THEN AddListedSectMembers(db1, sect_id, e, 1, now)
       ELSE db1

\* the loop over data.items(); raised = an exception left the loop
RECURSIVE SaveSectsLoop(_, _, _, _, _)
SaveSectsLoop(db, data, existing_sects, i, now) ==
  IF i > Len(data) THEN [db |-> db, raised |-> FALSE]
  ELSE LET sect_id == data[i].k
           e == data[i].v
       IN IF ~e.isdict THEN [db |-> db, raised |-> TRUE]
          ELSE SaveSectsLoop(
                 IF sect_id \in existing_sects
                   THEN SaveExistingSect(db, sect_id, e, now)
                   ELSE SaveNewSect(db, sect_id, e, now),
                 data, existing_sects, i + 1, now)

\* DELETE FROM sects WHERE sect_id = ? for the sects absent from the document.
\* _connect never issues PRAGMA foreign_keys = ON, so SQLite does not act on
\* ON DELETE CASCADE: the sect_members rows stay.
DeleteSects(db, gone) ==
  [db EXCEPT !.sects = [s \in DOMAIN @ \ gone |-> @[s]]]

save_sects_data(db, data, now) ==
  LET existing_sects == DOMAIN db.sects
      loop == SaveSectsLoop(db, data, existing_sects, 1, now)
  IN IF loop.raised
       THEN [db |-> loop.db, raised |-> TRUE]
       ELSE [db |-> DeleteSects(loop.db, existing_sects \ DocKeys(data)),
             raised |-> FALSE]

(***************************************************************************)
(* database.migrate_json_to_db.  The legacy files are read from DATA_DIR;  *)
(* each is a document as above.  Every step returns the store it reached   *)
(* and whether an exception left it.                                       *)
(***************************************************************************)
\* d.get(key) for a JSON object given as its list of pairs
DictHas(d, key) == \E i \in 1..Len(d) : d[i].k = key

DictGet(d, key, default) ==
  IF DictHas(d, key) THEN d[CHOOSE i \in 1..Len(d) : d[i].k = key].v ELSE default

\* for item in data["inventory"]: if isinstance(item, str): add_inventory_item
RECURSIVE MigrateInventory(_, _, _, _, _)
MigrateInventory(db, user_id, items, i, now) ==
  IF i > Len(items) THEN db
  ELSE LET item == items[i]
           db1 == IF item.t = "str"
                    THEN add_inventory_item(db, JStr(user_id), item.s, 1, "common", <<>>, now).db
                    ELSE db
       IN MigrateInventory(db1, user_id, items, i + 1, now)

\* for job_name, job_data in data["jobs"].items(): update_user_job
RECURSIVE MigrateUserJobs(_, _, _, _, _)
MigrateUserJobs(db, user_id, jobs, i, now) ==
  IF i > Len(jobs) THEN db
  ELSE LET job_data == jobs[i].v
           job_update == [xp |-> Get(job_data, "xp", 0),
                          rank |-> Get(job_data, "rank", "apprentice"),
                          last_work |-> Get(job_data, "last_work", NULL)]
           db1 == IF job_data.isdict
                    THEN update_user_job(db, JStr(user_id), jobs[i].k, job_update, now).db
                    ELSE db
       IN MigrateUserJobs(db1, user_id, jobs, i + 1, now)

RECURSIVE migrate_economy(_, _, _, _)
migrate_economy(db, economy_data, i, now) ==
  IF i > Len(economy_data) THEN [db |-> db, raised |-> FALSE]
  ELSE LET user_id == economy_data[i].k
           data == economy_data[i].v
           user_data == [cash |-> Get(data, "cash", 0),
                         bank |-> Get(data, "bank", 0),
                         job |-> Get(data, "job", NULL),
                         last_cultivate |-> Get(data, "last_cultivate", NULL),
                         last_collect |-> Get(data, "last_collect", NULL),
                         message_count |-> Get(data, "message_count", 0)]
           db1 == update_user(db, JStr(user_id), user_data, now).db
           db2 == IF "inventory" \in data.keys
                    THEN MigrateInventory(db1, user_id, data.inventory, 1, now)
                    ELSE db1
           db3 == IF "jobs" \in data.keys
                    THEN MigrateUserJobs(db2, user_id, data.jobs, 1, now)
                    ELSE db2
       IN IF ~data.isdict THEN [db |-> db, raised |-> TRUE]
          ELSE migrate_economy(db3, economy_data, i + 1, now)

RECURSIVE migrate_jobs(_, _, _)
migrate_jobs(db, jobs_data, i) ==
  IF i > Len(jobs_data) THEN [db |-> db, raised |-> FALSE]
  ELSE LET pay_range == jobs_data[i].v
           db1 == IF pay_range.islist /\ Len(pay_range.items) >= 2
                    THEN set_job(db, jobs_data[i].k, pay_range.items[1], pay_range.items[2]).db
                    ELSE db
       IN migrate_jobs(db1, jobs_data, i + 1)

StoreItemKeys == {"price", "description", "stock", "min_rank", "rarity"}

RECURSIVE migrate_store(_, _, _)
migrate_store(db, store_data, i) ==
  IF i > Len(store_data) THEN [db |-> db, raised |-> FALSE]
  ELSE LET item_data == store_data[i].v
           metadata == [key \in item_data.keys \ StoreItemKeys |-> item_data[key]]
           db1 == IF item_data.isdict
                    THEN set_store_item(db, store_data[i].k,
                                        Get(item_data, "price", 0),
                                        Get(item_data, "description", ""),
                                        Get(item_data, "stock", -1),
                                        Get(item_data, "min_rank", 0),
                                        Get(item_data, "rarity", "common"),
                                        metadata).db
                    ELSE db
       IN migrate_store(db1, store_data, i + 1)

\* faulty variant of MigrateSectMembers: the leader is not skipped
RECURSIVE MigrateSectMembersWithLeader(_, _, _, _, _)
MigrateSectMembersWithLeader(db, sect_id, sect_data, i, now) ==
  IF i > Len(sect_data.members) THEN db
  ELSE LET member_id == sect_data.members[i]
           db1 == add_sect_member(db, sect_id, member_id, "member", now).db
       IN MigrateSectMembersWithLeader(db1, sect_id, sect_data, i + 1, now)

\* for member_id in sect_data["members"]: if member_id != sect_data.get("leader"): add
RECURSIVE MigrateSectMembers(_, _, _, _, _)
MigrateSectMembers(db, sect_id, sect_data, i, now) ==
  IF i > Len(sect_data.members) THEN db
  ELSE LET member_id == sect_data.members[i]
           db1 == IF PyEq(member_id, Get(sect_data, "leader", JNone)) THEN db
                  ELSE add_sect_member(db, sect_id, member_id, "member", now).db
       IN MigrateSectMembers(db1, sect_id, sect_data, i + 1, now)

RECURSIVE migrate_sects(_, _, _, _)
migrate_sects(db, sects_data, i, now) ==
  IF i > Len(sects_data) THEN [db |-> db, raised |-> FALSE]
  ELSE LET sect_id == sects_data[i].k
           sect_data == sects_data[i].v
           db1 == create_sect(db, sect_id,
                              Get(sect_data, "name", "Sect " \o sect_id),
                              Get(sect_data, "leader", JStr("0")),
                              Get(sect_data, "description", ""),
                              Get(sect_data, "level", 1),
                              Get(sect_data, "wealth", 0), now).db
           db2 == IF "members" \in sect_data.keys
                    THEN MigrateSectMembers(db1, sect_id, sect_data, 1, now)
                    ELSE db1
       IN migrate_sects(IF sect_data.isdict THEN db2 ELSE db, sects_data, i + 1, now)

RewardKeys == {"add_money", "set_money", "rem_money", "reward_title"}

\* faulty variant of AddListedParticipants: zero counts as a bot id
RECURSIVE AddListedParticipantsZeroBot(_, _, _, _, _)
AddListedParticipantsZeroBot(db, tournament_id, e, i, now) ==
  IF i > Len(e.participants) THEN db
  ELSE LET participant_id == e.participants[i]
           is_bot == participant_id.t = "int" /\ participant_id.n <= 0
           bot_name == IF is_bot /\ "bot_names" \in e.keys
                         THEN DictGet(e.bot_names, PyStr(participant_id), NULL)
                         ELSE NULL
           db1 == add_tournament_participant(db, tournament_id, participant_id,
                                             is_bot, bot_name, now).db
       IN AddListedParticipantsZeroBot(db1, tournament_id, e, i + 1, now)

\* for participant_id in tournament_data["participants"]: add_tournament_participant
RECURSIVE AddListedParticipants(_, _, _, _, _)
AddListedParticipants(db, tournament_id, e, i, now) ==
  IF i > Len(e.participants) THEN db
  ELSE LET participant_id == e.participants[i]
           is_bot == participant_id.t = "int" /\ participant_id.n < 0
           bot_name == IF is_bot /\ "bot_names" \in e.keys
                         THEN DictGet(e.bot_names, PyStr(participant_id), NULL)
                         ELSE NULL
           db1 == add_tournament_participant(db, tournament_id, participant_id,
                                             is_bot, bot_name, now).db
       IN AddListedParticipants(db1, tournament_id, e, i + 1, now)

\* create the tournament, set status and winner, add the participants
SaveNewTournament(db, tournament_id, e, now) ==
  LET reward_data == [key \in RewardKeys \cap e.keys |-> e[key]]
      db1 == create_tournament(db, tournament_id,
                               Get(e, "host", JStr("0")),
                               Get(e, "title", "Tournament " \o tournament_id),
                               Get(e, "description", ""),
                               reward_data, now).db
      status == [status |-> Get(e, "status", "recruiting")]
      update_data == IF "winner" \in e.keys
                       THEN status @@ [winner_id |-> SqlText(e.winner)]
                       ELSE status
      db2 == update_tournament(db1, tournament_id, update_data).db
  IN IF "participants" \in e.keys
       THEN AddListedParticipants(db2, tournament_id, e, 1, now)
       ELSE db2

RECURSIVE migrate_tournaments(_, _, _, _)
migrate_tournaments(db, tournaments_data, i, now) ==
  IF i > Len(tournaments_data) THEN [db |-> db, raised |-> FALSE]
  ELSE LET tournament_id == tournaments_data[i].k
           tournament_data == tournaments_data[i].v
       IN migrate_tournaments(IF tournament_data.isdict
                                THEN SaveNewTournament(db, tournament_id, tournament_data, now)
                                ELSE db,
                              tournaments_data, i + 1, now)

\* the statements of the try block after migrate_economy(): each is skipped
\* once an exception has been raised
ThenJobs(r, f) ==
  IF r.raised THEN r ELSE migrate_jobs(r.db, f.jobs, 1)

ThenStore(r, f) ==
  IF r.raised THEN r ELSE migrate_store(r.db, f.store, 1)

ThenSects(r, f, now) ==
  IF r.raised THEN r ELSE migrate_sects(r.db, f.sects, 1, now)

ThenTournaments(r, f, now) ==
  IF r.raised THEN r ELSE migrate_tournaments(r.db, f.tournaments, 1, now)

\* return True at the end of the try block, return False in the except clause
Returned(r) == [db |-> r.db, ret |-> ~r.raised]

\* the try block: the steps run in order and the first exception ends the run
migrate_json_to_db(db, f, now) ==
  LET r1 == migrate_economy(db, f.economy, 1, now)
      r2 == ThenJobs(r1, f)
      r3 == ThenStore(r2, f)
      r4 == ThenSects(r3, f, now)
      r5 == ThenTournaments(r4, f, now)
  IN Returned(r5)

(***************************************************************************)
(* db_integration.get_tournaments_data                                     *)
(***************************************************************************)
\* a value Python treats as true: neither None nor the empty text
Truthy(text) == text # NULL /\ text # ""

\* the id a participant row is listed under: a bot with a name is listed as
\* int(participant_id) when the text parses, every other row as its text
ListedParticipant(q) ==
  IF q.is_bot /\ Truthy(q.bot_name) /\ PyInt(JStr(q.participant_id)).ok
    THEN JInt(PyInt(JStr(q.participant_id)).n)
    ELSE JStr(q.participant_id)

\* bot_names[participant_id] = bot_name for the bots that have a name
RECURSIVE BotNamesOf(_, _)
BotNamesOf(participants, i) ==
  IF i > Len(participants) THEN <<>>
  ELSE IF participants[i].is_bot /\ Truthy(participants[i].bot_name)
    THEN <<[k |-> participants[i].participant_id, v |-> participants[i].bot_name]>>
           \o BotNamesOf(participants, i + 1)
    ELSE BotNamesOf(participants, i + 1)

\* reward_data[key] of a tournament row, 0 when the key is absent
RewardOf(reward_data, key) ==
  IF key \in DOMAIN reward_data THEN reward_data[key] ELSE 0

\* the entry built from the tournament row and its participant rows
TournamentEntryFrom(tournament_data, participants) ==
  [isdict |-> TRUE,
   keys |-> {"title", "host", "description", "status", "participants"}
              \cup (IF Truthy(tournament_data.winner_id) THEN {"winner"} ELSE {})
              \cup (RewardKeys \cap DOMAIN tournament_data.reward_data)
              \cup (IF BotNamesOf(participants, 1) # <<>> THEN {"bot_names"} ELSE {}),
   host |-> IF tournament_data.host_id = NULL THEN JNone
            ELSE JStr(tournament_data.host_id),
   title |-> tournament_data.title,
   description |-> tournament_data.description,
   status |-> tournament_data.status,
   winner |-> IF Truthy(tournament_data.winner_id) THEN JStr(tournament_data.winner_id)
              ELSE JNone,
   participants |-> [i \in 1..Len(participants) |-> ListedParticipant(participants[i])],
   bot_names |-> BotNamesOf(participants, 1),
   add_money |-> RewardOf(tournament_data.reward_data, "add_money"),
   set_money |-> RewardOf(tournament_data.reward_data, "set_money"),
   rem_money |-> RewardOf(tournament_data.reward_data, "rem_money"),
   reward_title |-> IF "reward_title" \in DOMAIN tournament_data.reward_data
                      THEN tournament_data.reward_data.reward_title ELSE ""]

TournamentEntryOf(db, tournament_id) ==
  TournamentEntryFrom(get_tournament(db, tournament_id).row,
                      SetToSeq(get_tournament_participants(db, tournament_id)))

get_tournaments_data(db) ==
  LET tournament_ids == SetToSeq(DOMAIN db.tournaments)
  IN [i \in 1..Len(tournament_ids) |->
        [k |-> tournament_ids[i], v |-> TournamentEntryOf(db, tournament_ids[i])]]

(***************************************************************************)
(* Projection when a storage read raises.  A fault names the statement at  *)
(* which sqlite3 raises during one projection: the SELECT of the parent    *)
(* ids ("ids"), the parent lookup of one id ("parent") or the read of one  *)
(* parent's child rows ("children").                                       *)
(***************************************************************************)
ReadFaults == {"none", "ids", "parent", "children"}

\* get_sect_members when its SELECT raises: the except clause returns []
get_sect_members_under(db, sect_id, failed) ==
  IF failed THEN {} ELSE get_sect_members(db, sect_id)

\* get_tournament_participants when its SELECT raises: returns []
get_tournament_participants_under(db, tournament_id, failed) ==
  IF failed THEN {} ELSE get_tournament_participants(db, tournament_id)

\* the sect entry built from the members list the child read returned
SectEntryUnder(db, sect_id, failed) ==
  [SectEntryOf(db, sect_id) EXCEPT
     !.members = SetToSeq({JStr(m.user_id) :
                             m \in get_sect_members_under(db, sect_id, failed)})]

\* get_sects_data with sqlite3.Error raised at `fault` for parent `at`.  A
\* failed SELECT of the ids is caught by get_sects_data; a failed get_sect
\* returns None and sect_data.get raises AttributeError, caught as well; a
\* failed get_sect_members returns [] and the loop goes on.
get_sects_data_under(db, fault, at) ==
  LET sect_ids == SetToSeq(DOMAIN db.sects)
  IN IF fault = "ids" THEN <<>>
     ELSE IF fault = "parent" /\ at \in DOMAIN db.sects THEN <<>>
     ELSE [i \in 1..Len(sect_ids) |->
             [k |-> sect_ids[i],
              v |-> SectEntryUnder(db, sect_ids[i],
                                   fault = "children" /\ sect_ids[i] = at)]]

\* get_tournaments_data with sqlite3.Error raised at `fault` for parent `at`
get_tournaments_data_under(db, fault, at) ==
  LET tournament_ids == SetToSeq(DOMAIN db.tournaments)
  IN IF fault = "ids" THEN <<>>
     ELSE IF fault = "parent" /\ at \in DOMAIN db.tournaments THEN <<>>
     ELSE [i \in 1..Len(tournament_ids) |->
             [k |-> tournament_ids[i],
              v |-> TournamentEntryFrom(
                      get_tournament(db, tournament_ids[i]).row,
                      SetToSeq(get_tournament_participants_under(
                                 db, tournament_ids[i],
                                 fault = "children" /\ tournament_ids[i] = at)))]]


(***************************************************************************)
(* db_integration.save_tournaments_data                                    *)
(***************************************************************************)
\* is_bot = isinstance(participant_id, int) and participant_id < 0
IsBotId(participant_id) == participant_id.t = "int" /\ participant_id.n < 0

\* bot_name of a listed participant: bot_names.get(str(p)) for a bot
BotNameFor(e, participant_id) ==
  IF IsBotId(participant_id) /\ "bot_names" \in e.keys
    THEN DictGet(e.bot_names, PyStr(participant_id), NULL)
    ELSE NULL

\* for participant_id in participants: add it when its text is not stored
RECURSIVE AddNewParticipants(_, _, _, _, _, _)
AddNewParticipants(db, tournament_id, e, current_participant_ids, i, now) ==
  IF i > Len(e.participants) THEN db
  ELSE LET participant_id == e.participants[i]
           p_id_str == PyStr(participant_id)
           db1 == IF p_id_str \in current_participant_ids THEN db
                  ELSE add_tournament_participant(db, tournament_id, JStr(p_id_str),
                                                  IsBotId(participant_id),
                                                  BotNameFor(e, participant_id), now).db
       IN AddNewParticipants(db1, tournament_id, e, current_participant_ids, i + 1, now)

\* faulty variant of RemoveMissingParticipants: the stored text is looked up
\* among the listed values as they are, without str()
RECURSIVE RemoveMissingParticipantsTyped(_, _, _, _, _)
RemoveMissingParticipantsTyped(db, tournament_id, e, current_participants, i) ==
  IF i > Len(current_participants) THEN db
  ELSE LET p_id == current_participants[i].participant_id
           db1 == IF PyIn(JStr(p_id), e.participants)
                    THEN db
                    ELSE remove_tournament_participant(db, tournament_id, JStr(p_id)).db
       IN RemoveMissingParticipantsTyped(db1, tournament_id, e, current_participants, i + 1)

\* for participant in current_participants: remove it when no listed id has its text
RECURSIVE RemoveMissingParticipants(_, _, _, _, _)
RemoveMissingParticipants(db, tournament_id, e, current_participants, i) ==
  IF i > Len(current_participants) THEN db
  ELSE LET p_id == current_participants[i].participant_id
           db1 == IF p_id \in {PyStr(e.participants[j]) : j \in 1..Len(e.participants)}
                    THEN db
                    ELSE remove_tournament_participant(db, tournament_id, JStr(p_id)).db
       IN RemoveMissingParticipants(db1, tournament_id, e, current_participants, i + 1)

\* the participants part of the branch `if tournament_id in existing_tournaments`
ReconcileParticipants(db, tournament_id, e, current_participants, now) ==
  RemoveMissingParticipants(
    AddNewParticipants(db, tournament_id, e,
                       {q.participant_id : q \in current_participants}, 1, now),
    tournament_id, e, SetToSeq(current_participants), 1)

\* the branch `if tournament_id in existing_tournaments`
AbsorbExistingTournament(db, tournament_id, e, now) ==
  LET reward_data == [key \in RewardKeys \cap e.keys |-> e[key]]
      base == [title |-> Get(e, "title", "Tournament " \o tournament_id),
               host_id |-> SqlText(Get(e, "host", JNone)),
               description |-> Get(e, "description", ""),
               status |-> Get(e, "status", "recruiting"),
               reward_data |-> reward_data]
      update_data == IF "winner" \in e.keys
                       THEN base @@ [winner_id |-> SqlText(e.winner)]
                       ELSE base
      db1 == update_tournament(db, tournament_id, update_data).db
  IN IF "participants" \in e.keys
       THEN ReconcileParticipants(db1, tournament_id, e,
                                  get_tournament_participants(db1, tournament_id), now)
       ELSE db1

\* for participant_id in participants: add_tournament_participant(str(p), ...)
RECURSIVE AddAllParticipants(_, _, _, _, _)
AddAllParticipants(db, tournament_id, e, i, now) ==
  IF i > Len(e.participants) THEN db
  ELSE LET participant_id == e.participants[i]
           db1 == add_tournament_participant(db, tournament_id,
                                             JStr(PyStr(participant_id)),
                                             IsBotId(participant_id),
                                             BotNameFor(e, participant_id), now).db
       IN AddAllParticipants(db1, tournament_id, e, i + 1, now)

\* the status and winner update of the branch `else`
StatusUpdate(e) ==
  IF "winner" \in e.keys
    THEN [status |-> Get(e, "status", "recruiting"), winner_id |-> SqlText(e.winner)]
    ELSE [status |-> Get(e, "status", "recruiting")]

\* the branch `else` (create new tournament)
AbsorbNewTournament(db, tournament_id, e, now) ==
  LET reward_data == [key \in RewardKeys \cap e.keys |-> e[key]]
      db1 == create_tournament(db, tournament_id,
                               Get(e, "host", JStr("0")),
                               Get(e, "title", "Tournament " \o tournament_id),
                               Get(e, "description", ""),
                               reward_data, now).db
      db2 == update_tournament(db1, tournament_id, StatusUpdate(e)).db
  IN IF "participants" \in e.keys
       THEN AddAllParticipants(db2, tournament_id, e, 1, now)
       ELSE db2

\* the loop over data.items(); raised = an exception left the loop
RECURSIVE SaveTournamentsLoop(_, _, _, _, _)
SaveTournamentsLoop(db, data, existing_tournaments, i, now) ==
  IF i > Len(data) THEN [db |-> db, raised |-> FALSE]
  ELSE LET tournament_id == data[i].k
           e == data[i].v
       IN IF ~e.isdict THEN [db |-> db, raised |-> TRUE]
          ELSE SaveTournamentsLoop(
                 IF tournament_id \in existing_tournaments
                   THEN AbsorbExistingTournament(db, tournament_id, e, now)
                   ELSE AbsorbNewTournament(db, tournament_id, e, now),
                 data, existing_tournaments, i + 1, now)

\* DELETE FROM tournaments WHERE tournament_id = ?: without foreign keys
\* enabled the tournament_participants rows stay
DeleteTournaments(db, gone) ==
  [db EXCEPT !.tournaments = [t \in DOMAIN @ \ gone |-> @[t]]]

\* the loop, then the deletions unless the loop raised
FinishTournaments(loop, existing_tournaments, data) ==
  IF loop.raised
    THEN [db |-> loop.db, raised |-> TRUE]
    ELSE [db |-> DeleteTournaments(loop.db, existing_tournaments \ DocKeys(data)),
          raised |-> FALSE]

save_tournaments_data(db, data, now) ==
  FinishTournaments(SaveTournamentsLoop(db, data, DOMAIN db.tournaments, 1, now),
                    DOMAIN db.tournaments, data)

(***************************************************************************)
(* db_integration.save_economy_data.  The cash and bank of a user record   *)
(* are integers in the documents of the model, for which int() returns     *)
(* the value itself.                                                       *)
(***************************************************************************)
\* the rows of get_inventory in the order of the scan (by id)
RECURSIVE RowsById(_)
RowsById(rows) ==
  IF rows = {} THEN <<>>
  ELSE <<FirstRow(rows)>> \o RowsById(rows \ {FirstRow(rows)})

\* for item_name in inventory: if item_name not in current_items: add_inventory_item
RECURSIVE AddMissingItems(_, _, _, _, _, _)
AddMissingItems(db, user_id, items, current_items, i, now) ==
  IF i > Len(items) THEN db
  ELSE LET item_name == items[i]
           db1 == IF item_name.t = "str" /\ item_name.s \in current_items THEN db
                  ELSE add_inventory_item(db, JStr(user_id), PyStr(item_name), 1,
                                          "common", <<>>, now).db
       IN AddMissingItems(db1, user_id, items, current_items, i + 1, now)

\* for item in current_inventory: if item["item_name"] not in inventory:
\* remove_inventory_item(user_id, item["item_name"]), one unit of the first
\* row of that name
RECURSIVE RemoveUnlistedItems(_, _, _, _, _)
RemoveUnlistedItems(db, user_id, items, current_inventory, i) ==
  IF i > Len(current_inventory) THEN db
  ELSE LET item_name == current_inventory[i].item_name
           db1 == IF PyIn(JStr(item_name), items) THEN db
                  ELSE remove_inventory_item(db, JStr(user_id), item_name, 1, "").db
       IN RemoveUnlistedItems(db1, user_id, items, current_inventory, i + 1)

\* the block `# Update inventory`
SaveUserInventory(db, user_id, items, current_inventory, now) ==
  RemoveUnlistedItems(
    AddMissingItems(db, user_id, items,
                    {r.item_name : r \in current_inventory}, 1, now),
    user_id, items, RowsById(current_inventory), 1)

\* one pass of the loop over data.items()
SaveEconomyUser(db, user_id, user_data, now) ==
  LET db_user_data == [cash |-> Get(user_data, "cash", 0),
                       bank |-> Get(user_data, "bank", 0),
                       job |-> Get(user_data, "job", NULL),
                       last_cultivate |-> Get(user_data, "last_cultivate", NULL),
                       last_collect |-> Get(user_data, "last_collect", NULL),
                       message_count |-> Get(user_data, "message_count", 0)]
      db1 == update_user(db, JStr(user_id), db_user_data, now).db
      db2 == IF "inventory" \in user_data.keys
               THEN SaveUserInventory(db1, user_id, user_data.inventory,
                                      get_inventory(db1, JStr(user_id)), now)
               ELSE db1
  IN IF "last_collects" \in user_data.keys
       THEN set_user_meta(db2, JStr(user_id), "last_collects",
                          user_data.last_collects, now).db
       ELSE db2

\* the loop; raised = an exception reached the except clause, which logs it
RECURSIVE save_economy_data(_, _, _, _)
save_economy_data(db, data, i, now) ==
  IF i > Len(data) THEN [db |-> db, raised |-> FALSE]
  ELSE IF ~data[i].v.isdict THEN [db |-> db, raised |-> TRUE]
  ELSE save_economy_data(SaveEconomyUser(db, data[i].k, data[i].v, now),
                         data, i + 1, now)

(***************************************************************************)
(* db_integration.get_economy_data                                         *)
(***************************************************************************)
\* cash = user_data.get("cash"); an integer gives itself, None gives 0
IntOrZero(x) == IF x \in Int THEN x ELSE 0

\* the entry of one user; raised is TRUE when get_user_meta raises
\* json.JSONDecodeError, which the except clause of get_economy_data catches
EconomyEntryOf(db, user_id, now) ==
  LET user_data == get_user(db, JStr(user_id), now).ret
      inventory == RowsById(get_inventory(db, JStr(user_id)))
      last_collects == get_user_meta(db, JStr(user_id), "last_collects")
      listed == ~last_collects.value.none /\ last_collects.value.items # <<>>
  IN [raised |-> last_collects.raised,
      entry |->
        [isdict |-> TRUE,
         keys |-> {"cash", "bank", "balance", "last_collect", "job", "last_cultivate",
                   "last_job", "inventory", "message_count"}
                    \cup (IF listed THEN {"last_collects"} ELSE {}),
         cash |-> IntOrZero(user_data.cash),
         bank |-> IntOrZero(user_data.bank),
         balance |-> 0,
         last_collect |-> user_data.last_collect,
         job |-> user_data.job,
         last_cultivate |-> user_data.last_cultivate,
         last_job |-> NULL,
         inventory |-> [i \in 1..Len(inventory) |-> JStr(inventory[i].item_name)],
         message_count |-> user_data.message_count,
         last_collects |-> last_collects.value]]

get_economy_data(db, now) ==
  LET user_ids == SetToSeq(DOMAIN db.users)
  IN IF \E u \in DOMAIN db.users : EconomyEntryOf(db, u, now).raised
       THEN <<>>
       ELSE [i \in 1..Len(user_ids) |->
               [k |-> user_ids[i], v |-> EconomyEntryOf(db, user_ids[i], now).entry]]

(***************************************************************************)
(* db_integration.save_jobs_data, Database.get_store_items                 *)
(***************************************************************************)
RECURSIVE save_jobs_data(_, _, _)
save_jobs_data(db, data, i) ==
  IF i > Len(data) THEN [db |-> db, raised |-> FALSE]
  ELSE LET pay_range == data[i].v
           db1 == IF pay_range.islist /\ Len(pay_range.items) >= 2
                    THEN set_job(db, data[i].k, pay_range.items[1], pay_range.items[2]).db
                    ELSE db
       IN save_jobs_data(db1, data, i + 1)

\* {item_name: dict(row)} for every row of store_items
get_store_items(db) == db.store_items

(***************************************************************************)
(* db_integration.load_json and save_json.  A path is the sequence of its  *)
(* components; the files routed to the database are told by base name.     *)
(***************************************************************************)
DATA_FILE == "economy.json"
JOBS_FILE == "jobs.json"
STORE_FILE == "store.json"
SECTS_FILE == "sects.json"
TOURNAMENTS_FILE == "tournaments.json"

\* os.path.basename(file_path)
basename(file_path) == file_path[Len(file_path)]

\* the document load_json returns for a routed name; every branch reads only
load_json(db, file_path, now) ==
  LET name == basename(file_path)
  IN IF name = DATA_FILE THEN get_economy_data(db, now)
     ELSE IF name = JOBS_FILE THEN get_jobs(db)
     ELSE IF name = STORE_FILE THEN get_store_items(db)
     ELSE IF name = SECTS_FILE THEN get_sects_data(db)
     ELSE IF name = TOURNAMENTS_FILE THEN get_tournaments_data(db)
     ELSE <<>>

\* raised is TRUE when an exception leaves save_json.  The save_*_data
\* functions catch their own exceptions; save_store_data is a name that is
\* defined nowhere, so the store branch raises NameError before anything is
\* written.  Any other path is written as a file and the store is untouched.
save_json(db, file_path, data, now) ==
  LET name == basename(file_path)
  IN IF name = DATA_FILE
       THEN [db |-> save_economy_data(db, data, 1, now).db, raised |-> FALSE]
     ELSE IF name = JOBS_FILE
       THEN [db |-> save_jobs_data(db, data, 1).db, raised |-> FALSE]
     ELSE IF name = STORE_FILE
       THEN [db |-> db, raised |-> TRUE]
     ELSE IF name = SECTS_FILE
       THEN [db |-> save_sects_data(db, data, now).db, raised |-> FALSE]
     ELSE IF name = TOURNAMENTS_FILE
       THEN [db |-> save_tournaments_data(db, data, now).db, raised |-> FALSE]
     ELSE [db |-> db, raised |-> FALSE]

(***************************************************************************)
(* State.  db is the committed store; clock is the value CURRENT_TIMESTAMP *)
(* had at the last call; last, arg and pre record the last call, its       *)
(* argument and the store it started from.  callers holds, for each caller *)
(* of load_json and save_json, its position and the document it has in     *)
(* memory.                                                                 *)
(***************************************************************************)
VARIABLES db, clock, last, arg, pre, files, pc, callers

vars == <<db, clock, last, arg, pre, files, pc, callers>>

\* DATA_DIR without legacy files: load_json_file returns {} for each
NoFiles == [economy |-> <<>>, jobs |-> <<>>, store |-> <<>>, sects |-> <<>>,
            tournaments |-> <<>>]

\* the callers of load_json and save_json that hold a document in memory
Callers == {"a", "b"}

\* no caller has loaded a document
NoCallers == [c \in Callers |-> [pc |-> "start", stale |-> FALSE, data |-> <<>>]]

Init ==
  /\ files = NoFiles
  /\ pc = "idle"
  /\ callers = NoCallers
  /\ db = EmptyStore
  /\ clock = 0
  /\ last = [op |-> "init", ret |-> TRUE]
  /\ arg = <<>>
  /\ pre = EmptyStore

\* the effect of a call that started at time clock and ran at time clock + 1
Call(op, a, r) ==
  /\ clock' = clock + 1
  /\ pre' = db
  /\ db' = r.db
  /\ last' = [op |-> op, ret |-> r.ret]
  /\ arg' = a
  /\ UNCHANGED <<files, pc, callers>>

(***************************************************************************)
(* Inputs of the sect operations                                           *)
(***************************************************************************)
SectRoles == {"member", "elder"}

MemberLists == {SetToSeq({JStr(u) : u \in S}) : S \in SUBSET UserIds}

SectEntry(leader, members, level, wealth) ==
  [isdict |-> TRUE, keys |-> {"name", "leader", "level", "wealth", "members"},
   name |-> "Iron Sect", leader |-> JStr(leader), description |-> "",
   level |-> level, wealth |-> wealth, members |-> members]

\* an entry without a members list
BareSectEntry(leader) ==
  [isdict |-> TRUE, keys |-> {"name", "leader"},
   name |-> "Iron Sect", leader |-> JStr(leader), description |-> "",
   level |-> 0, wealth |-> 0, members |-> <<>>]

DocLeaders == {"100", "101"}

RichSectEntries == {SectEntry(l, ms, 2, 500) : l \in DocLeaders, ms \in MemberLists}

PlainSectEntries ==
  {SectEntry("100", <<JStr("100"), JStr("101")>>, 1, 0), BareSectEntry("102"), MalformedSect}

SectDocs ==
  {<<>>}
    \cup {<<[k |-> s, v |-> e]>> : s \in SectIds, e \in RichSectEntries \cup {MalformedSect}}
    \cup {<<[k |-> ks[1], v |-> e1], [k |-> ks[2], v |-> e2]>> :
            ks \in {q \in SectIds \X SectIds : q[1] # q[2]},
            e1 \in PlainSectEntries, e2 \in PlainSectEntries}

WellFormed(data) == \A i \in 1..Len(data) : data[i].v.isdict

(***************************************************************************)
(* Actions: the sect operations                                            *)
(***************************************************************************)
CreateSect ==
  \E s \in SectIds, l \in UserIds :
    /\ clock < MaxClock
    /\ Call("create_sect", [sect_id |-> s, leader_id |-> l],
            create_sect(db, s, "Iron Sect", JStr(l), "", 1, 0, clock + 1))

AddSectMember ==
  \E s \in SectIds, u \in UserIds, r \in SectRoles :
    /\ clock < MaxClock
    /\ Call("add_sect_member", [sect_id |-> s, user_id |-> u, role |-> r],
            add_sect_member(db, s, JStr(u), r, clock + 1))

SaveSectsData ==
  \E data \in SectDocs :
    /\ clock < MaxClock
    /\ LET r == save_sects_data(db, data, clock + 1)
       IN Call("save_sects_data", data, [db |-> r.db, ret |-> ~r.raised])

\* save_json(SECTS_FILE, load_json(SECTS_FILE))
ResaveSects ==
  /\ clock < MaxClock
  /\ LET data == get_sects_data(db)
         r == save_sects_data(db, data, clock + 1)
     IN Call("resave_sects", data, [db |-> r.db, ret |-> ~r.raised])

Next == CreateSect \/ AddSectMember \/ SaveSectsData \/ ResaveSects

Spec == Init /\ [][Next]_vars

(***************************************************************************)
(* Properties of the sect operations (specification Spec)                  *)
(***************************************************************************)
\* the user ids of the sect_members rows of a sect
MemberIds(store, s) == {m.user_id : m \in {x \in store.sect_members : x.sect_id = s}}

\* the ids a members list names
ListedIds(e) == {PyStr(e.members[i]) : i \in 1..Len(e.members)}

\* C1: reconciliation diff.  After save_sects_data on a document of sect
\* objects, every sect that was in storage and has a members list D in the
\* document has stored membership exactly D, and each row of a member that was
\* stored before and is in D is the same row (same role, same joined_at).
C1_ReconciliationDiff ==
  (last.op = "save_sects_data" /\ WellFormed(arg)) =>
    \A i \in 1..Len(arg) :
      LET s == arg[i].k
          e == arg[i].v
      IN (s \in DOMAIN pre.sects /\ "members" \in e.keys) =>
           /\ MemberIds(db, s) = ListedIds(e)
           /\ \A m \in pre.sect_members :
                (m.sect_id = s /\ m.user_id \in ListedIds(e)) => m \in db.sect_members

\* a save that removed a member, added a member and kept a member of one sect
C1_Witness ==
  /\ last.op = "save_sects_data"
  /\ WellFormed(arg)
  /\ \E i \in 1..Len(arg) :
       LET s == arg[i].k
           e == arg[i].v
       IN /\ s \in DOMAIN pre.sects
          /\ "members" \in e.keys
          /\ MemberIds(pre, s) \ ListedIds(e) # {}
          /\ ListedIds(e) \ MemberIds(pre, s) # {}
          /\ MemberIds(pre, s) \cap ListedIds(e) # {}
          /\ MemberIds(db, s) = ListedIds(e)

\* C2: absorb is all-or-nothing.  If save_sects_data fails part-way through,
\* the store after the call equals the store before the call.
C2_AbsorbAllOrNothing ==
  (last.op = "save_sects_data" /\ ~last.ret) => db = pre

\* C3: cascade delete.  Every sect_members row refers to an existing sect and
\* every tournament_participants row to an existing tournament.
C3_CascadeDelete ==
  /\ \A m \in db.sect_members : m.sect_id \in DOMAIN db.sects
  /\ \A p \in db.tournament_participants : p.tournament_id \in DOMAIN db.tournaments

\* C4: document round-trip.  save_sects_data(get_sects_data()) changes no row
\* of any table.
C4_RoundTrip ==
  last.op = "resave_sects" => (last.ret /\ db = pre)

\* a re-save of a store with two sects of at least two members each
C4_Witness ==
  /\ last.op = "resave_sects"
  /\ Cardinality(DOMAIN pre.sects) >= 2
  /\ \A s \in DOMAIN pre.sects : Cardinality(MemberIds(pre, s)) >= 2
  /\ Len(arg) = 2

\* C5: full-replace sync.  After a successful save_sects_data(doc) the sect
\* ids in storage are the keys of doc.
C5_FullReplace ==
  (last.op = "save_sects_data" /\ last.ret) => DOMAIN db.sects = DocKeys(arg)

\* C8: create_sect is atomic.  When create_sect returns false the store is as
\* it was before the call; when it returns true the sects row and the leader's
\* sect_members row are both there.
C8_CreateSectAtomic ==
  last.op = "create_sect" =>
    IF last.ret
      THEN /\ arg.sect_id \in DOMAIN db.sects
           /\ \E m \in db.sect_members :
                m.sect_id = arg.sect_id /\ m.user_id = arg.leader_id /\ m.role = "leader"
      ELSE db = pre

(***************************************************************************)
(* Economy documents: economy.json, and the dictionary the callers of      *)
(* save_economy_data pass                                                  *)
(***************************************************************************)
JobEntry(xp, rank) ==
  [isdict |-> TRUE, keys |-> {"xp", "rank"}, xp |-> xp, rank |-> rank,
   last_work |-> NULL]

\* a job record that is not an object
MalformedJob == [isdict |-> FALSE, keys |-> {}, xp |-> 0, rank |-> "", last_work |-> NULL]

EconomyEntry(cash, bank, inventory, jobs) ==
  [isdict |-> TRUE, keys |-> {"cash", "bank", "job", "inventory", "jobs"},
   cash |-> cash, bank |-> bank, job |-> "miner", last_cultivate |-> NULL,
   last_collect |-> NULL, message_count |-> 0,
   inventory |-> inventory, jobs |-> jobs]

\* a user record with a cash balance only
BareEconomyEntry(cash) ==
  [isdict |-> TRUE, keys |-> {"cash"},
   cash |-> cash, bank |-> 0, job |-> NULL, last_cultivate |-> NULL,
   last_collect |-> NULL, message_count |-> 0,
   inventory |-> <<>>, jobs |-> <<>>]

\* a user record that is not an object: data.get raises AttributeError
MalformedEconomyEntry ==
  [isdict |-> FALSE, keys |-> {},
   cash |-> 0, bank |-> 0, job |-> NULL, last_cultivate |-> NULL,
   last_collect |-> NULL, message_count |-> 0,
   inventory |-> <<>>, jobs |-> <<>>]

EconomyDocs ==
  {<<>>,
   <<[k |-> "100", v |-> BareEconomyEntry(7)]>>,
   <<[k |-> "100", v |-> EconomyEntry(50, 10, <<JStr("Sword")>>,
                                      <<[k |-> "miner", v |-> JobEntry(5, "adept")]>>)]>>,
   <<[k |-> "100", v |-> EconomyEntry(-20, 0, <<JStr("Sword"), JInt(5), JStr("Sword")>>,
                                      <<[k |-> "miner", v |-> MalformedJob]>>)],
     [k |-> "101", v |-> BareEconomyEntry(3)]>>,
   <<[k |-> "101", v |-> BareEconomyEntry(3)],
     [k |-> "100", v |-> MalformedEconomyEntry]>>}

(***************************************************************************)
(* Actions: balances, inventory, store items and user jobs                 *)
(***************************************************************************)
EconUsers == {"100", "101"}

\* amounts as callers pass them: integers, numeric text, other text, None
Amounts ==
  {JInt(-5), JInt(-1), JInt(0), JInt(3), JStr("4"), JStr("abc"), JNone, JFloat(27)}

UserUpdates ==
  {[cash |-> -5], [bank |-> -2], [cash |-> 4, bank |-> 6], [nickname |-> 1],
   [user_id |-> "999", message_count |-> 2]}

Quantities == {-3, 1, 2}

Stocks == {-1, -4, 3}

UpdateUser ==
  \E u \in EconUsers, data \in UserUpdates :
    /\ clock < MaxClock
    /\ Call("update_user", [user_id |-> u, data |-> data],
            update_user(db, JStr(u), data, clock + 1))

AddCash ==
  \E u \in EconUsers, amount \in Amounts :
    /\ clock < MaxClock
    /\ Call("add_cash", [user_id |-> u, amount |-> amount],
            add_cash(db, JStr(u), amount, clock + 1))

AddBank ==
  \E u \in EconUsers, amount \in Amounts :
    /\ clock < MaxClock
    /\ Call("add_bank", [user_id |-> u, amount |-> amount],
            add_bank(db, JStr(u), amount, clock + 1))

SetCash ==
  \E amount \in {JInt(-5), JInt(3), JStr("abc")} :
    /\ clock < MaxClock
    /\ Call("set_cash", [user_id |-> "100", amount |-> amount],
            set_cash(db, JStr("100"), amount, clock + 1))

SetBank ==
  \E amount \in {JInt(-5), JInt(3), JStr("abc")} :
    /\ clock < MaxClock
    /\ Call("set_bank", [user_id |-> "100", amount |-> amount],
            set_bank(db, JStr("100"), amount, clock + 1))

Rarities == {"common", "rare"}

AddInventoryItem ==
  \E quantity \in Quantities, rarity \in Rarities :
    /\ clock < MaxClock
    /\ Call("add_inventory_item",
            [user_id |-> "100", item_name |-> "Sword", quantity |-> quantity,
             rarity |-> rarity],
            add_inventory_item(db, JStr("100"), "Sword", quantity, rarity, <<>>,
                               clock + 1))

RemoveInventoryItem ==
  \E quantity \in Quantities, rarity \in {"", "rare"} :
    /\ clock < MaxClock
    /\ Call("remove_inventory_item",
            [user_id |-> "100", item_name |-> "Sword", quantity |-> quantity,
             rarity |-> rarity],
            remove_inventory_item(db, JStr("100"), "Sword", quantity, rarity))

SetStoreItem ==
  \E stock \in Stocks :
    /\ clock < MaxClock
    /\ Call("set_store_item", [item_name |-> "Sword", stock |-> stock],
            set_store_item(db, "Sword", 10, "", stock, 0, "common", <<>>))

UpdateStoreItemStock ==
  \E change \in {-5, 1} :
    /\ clock < MaxClock
    /\ Call("update_store_item_stock", [item_name |-> "Sword", change |-> change],
            update_store_item_stock(db, "Sword", change))

UpdateUserJob ==
  \E xp \in {-2, 10} :
    /\ clock < MaxClock
    /\ Call("update_user_job", [user_id |-> "100", xp |-> xp],
            update_user_job(db, JStr("100"), "miner", [xp |-> xp], clock + 1))

GetUser ==
  \E u \in EconUsers :
    /\ clock < MaxClock
    /\ Call("get_user", [user_id |-> u], get_user(db, JStr(u), clock + 1))

EconomySaveDocs ==
  EconomyDocs
    \cup {<<[k |-> "100", v |-> EconomyEntry(50, 10, <<JStr("Bow")>>, <<>>)]>>,
          <<[k |-> "100", v |-> EconomyEntry(0, 0, <<>>, <<>>)]>>}

\* the value of save_economy_data is None; ret tells whether it ended without
\* logging an exception
SaveEconomyData ==
  \E data \in EconomySaveDocs :
    /\ clock < MaxClock
    /\ Call("save_economy_data", data,
            Returned(save_economy_data(db, data, 1, clock + 1)))

NextEconomy ==
  \/ SaveEconomyData
  \/ GetUser
  \/ UpdateUser \/ AddCash \/ AddBank \/ SetCash \/ SetBank
  \/ AddInventoryItem \/ RemoveInventoryItem
  \/ SetStoreItem \/ UpdateStoreItemStock \/ UpdateUserJob

SpecEconomy == Init /\ [][NextEconomy]_vars

(***************************************************************************)
(* Properties of the balances and quantities (specification SpecEconomy)   *)
(***************************************************************************)
\* the balance columns of a user, (0, 0) for a user get_user has yet to create
BalanceOf(store, u) ==
  IF u \in DOMAIN store.users
    THEN [cash |-> store.users[u].cash, bank |-> store.users[u].bank]
    ELSE [cash |-> 0, bank |-> 0]

\* C6: non-negativity.  In every reachable state users.cash, users.bank,
\* inventory.quantity, user_jobs.xp and sects.wealth are >= 0 and
\* store_items.stock is -1 or >= 0.
C6_NonNegative ==
  /\ \A u \in DOMAIN db.users : db.users[u].cash >= 0 /\ db.users[u].bank >= 0
  /\ \A r \in db.inventory : r.quantity >= 0
  /\ \A j \in db.user_jobs : j.xp >= 0
  /\ \A s \in DOMAIN db.sects : db.sects[s].wealth >= 0
  /\ \A i \in DOMAIN db.store_items :
       db.store_items[i].stock = -1 \/ db.store_items[i].stock >= 0

\* C7: balance floor.  An add_cash or add_bank call on a user whose cash and
\* bank are >= 0 leaves both >= 0, whatever the delta (negative, zero, text,
\* None), so every sequence of such calls does; and a successful add_cash(d)
\* with an integer d stores max(0, old cash + d).
C7_BalanceFloor ==
  (last.op \in {"add_cash", "add_bank"}) =>
    LET old == BalanceOf(pre, arg.user_id)
        new == BalanceOf(db, arg.user_id)
    IN (old.cash >= 0 /\ old.bank >= 0) =>
         /\ new.cash >= 0
         /\ new.bank >= 0
         /\ (last.op = "add_cash" /\ last.ret /\ arg.amount.t = "int")
              => new.cash = Max(0, old.cash + arg.amount.n)

\* add_cash(-5) on a user holding 4 has run and stored 0
C7_Witness ==
  /\ last.op = "add_cash"
  /\ last.ret
  /\ arg.amount = JInt(-5)
  /\ BalanceOf(pre, arg.user_id).cash = 4
  /\ BalanceOf(db, arg.user_id).cash = 0

(***************************************************************************)
(* The legacy files of the migration                                       *)
(***************************************************************************)
JobsDocs ==
  {<<>>,
   <<[k |-> "miner", v |-> [islist |-> TRUE, items |-> <<1, 5>>]]>>,
   <<[k |-> "miner", v |-> [islist |-> TRUE, items |-> <<1>>]],
     [k |-> "smith", v |-> [islist |-> FALSE, items |-> <<>>]]>>}

StoreEntry(stock) ==
  [isdict |-> TRUE, keys |-> {"price", "stock", "glow"},
   price |-> 10, description |-> "", stock |-> stock, min_rank |-> 0,
   rarity |-> "common", glow |-> TRUE]

MalformedStoreEntry ==
  [isdict |-> FALSE, keys |-> {},
   price |-> 0, description |-> "", stock |-> 0, min_rank |-> 0,
   rarity |-> "", glow |-> FALSE]

StoreDocs ==
  {<<>>,
   <<[k |-> "Sword", v |-> StoreEntry(3)]>>,
   <<[k |-> "Sword", v |-> MalformedStoreEntry]>>}

LegacySectDocs ==
  {<<>>,
   <<[k |-> "s1", v |-> SectEntry("100", <<JStr("100"), JStr("101"), JStr("102")>>, 2, 500)]>>,
   <<[k |-> "s1", v |-> SectEntry("100", <<JStr("101"), JStr("101")>>, 3, 20)],
     [k |-> "s2", v |-> SectEntry("100", <<JStr("102"), JStr("100")>>, 1, 0)]>>,
   <<[k |-> "s1", v |-> BareSectEntry("102")],
     [k |-> "s2", v |-> SectEntry("101", <<>>, 1, 0)]>>,
   <<[k |-> "s1", v |-> MalformedSect],
     [k |-> "s2", v |-> SectEntry("101", <<JStr("100"), JStr("101")>>, 2, 500)]>>}

TournamentEntry(participants, bot_names) ==
  [isdict |-> TRUE,
   keys |-> {"host", "title", "status", "winner", "participants", "bot_names", "add_money"},
   host |-> JStr("100"), title |-> "Spring Cup", description |-> "",
   status |-> "finished", winner |-> JStr("200"),
   participants |-> participants, bot_names |-> bot_names,
   add_money |-> 100, set_money |-> 0, rem_money |-> 0, reward_title |-> ""]

\* a tournament with a host only
BareTournamentEntry ==
  [isdict |-> TRUE, keys |-> {"host"},
   host |-> JStr("101"), title |-> "", description |-> "",
   status |-> "", winner |-> JNone,
   participants |-> <<>>, bot_names |-> <<>>,
   add_money |-> 0, set_money |-> 0, rem_money |-> 0, reward_title |-> ""]

\* a tournament without a bot_names table
UnnamedBotsEntry(participants) ==
  [isdict |-> TRUE, keys |-> {"host", "title", "participants"},
   host |-> JStr("100"), title |-> "Autumn Cup", description |-> "",
   status |-> "", winner |-> JNone,
   participants |-> participants, bot_names |-> <<>>,
   add_money |-> 0, set_money |-> 0, rem_money |-> 0, reward_title |-> ""]

TournamentDocs ==
  {<<>>,
   <<[k |-> "t1", v |-> UnnamedBotsEntry(<<JInt(-1), JStr("-3"), JInt(0), JStr("101")>>)]>>,
   <<[k |-> "t1", v |-> TournamentEntry(<<JInt(200), JInt(-1), JInt(-2)>>,
                                        <<[k |-> "-1", v |-> "Iron Golem"]>>)]>>,
   <<[k |-> "t1", v |-> BareTournamentEntry]>>}

LegacyFiles ==
  [economy : EconomyDocs, jobs : JobsDocs, store : StoreDocs,
   sects : LegacySectDocs, tournaments : TournamentDocs]

(***************************************************************************)
(* Actions: the migration                                                  *)
(***************************************************************************)
InitMigrate ==
  /\ files \in LegacyFiles
  /\ pc = "idle"
  /\ callers = NoCallers
  /\ db = EmptyStore
  /\ clock = 0
  /\ last = [op |-> "init", ret |-> TRUE]
  /\ arg = <<>>
  /\ pre = EmptyStore

MigrateJsonToDb ==
  /\ clock < MaxClock
  /\ Call("migrate_json_to_db", <<>>, migrate_json_to_db(db, files, clock + 1))

\* migrate.run_migration: backup_json_files() copies the JSON files of the
\* working directory and leaves the store alone, then migrate_json_to_db()
\* runs; success is its return value
run_migration(r) == [db |-> r.db, success |-> r.ret]

\* python migrate.py run: the `elif sys.argv[1] == "run"` branch calls
\* run_migration() and drops its value; the script ends and the interpreter
\* exits with status 0
main_run(m) ==
  [db |-> m.db, ret |-> [success |-> m.success, exit_status |-> 0]]

MigratePyRun ==
  /\ clock < MaxClock
  /\ \E r \in {migrate_json_to_db(db, files, clock + 1)} :
       Call("migrate_py_run", <<>>, main_run(run_migration(r)))

NextMigrate == MigrateJsonToDb

SpecMigrate == InitMigrate /\ [][NextMigrate]_vars

\* the script migrate.py run from the command line
NextMigratePy == MigratePyRun

SpecMigratePy == InitMigrate /\ [][NextMigratePy]_vars

(***************************************************************************)
(* Properties of the migration (specification SpecMigrate)                 *)
(***************************************************************************)
TimeColumns == {"created_at", "updated_at", "joined_at"}

\* a row without the columns SQLite fills with CURRENT_TIMESTAMP
Untimed(row) == [c \in DOMAIN row \ TimeColumns |-> row[c]]

\* the store without its timestamps
Content(store) ==
  [users |-> [u \in DOMAIN store.users |-> Untimed(store.users[u])],
   inventory |-> store.inventory,
   jobs |-> store.jobs,
   user_jobs |-> store.user_jobs,
   store_items |-> store.store_items,
   sects |-> [s \in DOMAIN store.sects |-> Untimed(store.sects[s])],
   sect_members |-> {Untimed(m) : m \in store.sect_members},
   tournaments |-> [t \in DOMAIN store.tournaments |-> Untimed(store.tournaments[t])],
   tournament_participants |-> {Untimed(q) : q \in store.tournament_participants}]

\* C9: migration is safe to re-run.  The second run of migrate_json_to_db on
\* the same legacy files leaves every table as the first run left it
\* (timestamps aside).
C9_MigrationRerun ==
  (last.op = "migrate_json_to_db" /\ clock = 2) => Content(db) = Content(pre)

\* the (user_id, role) pairs of the sect_members rows of a sect
RolesOf(store, s) ==
  {[user_id |-> m.user_id, role |-> m.role] :
     m \in {x \in store.sect_members : x.sect_id = s}}

\* C10: sect migration.  After a migration into an empty store that ran to
\* its end, every sect object of the sects file with leader L and members M
\* is stored with leader_id L and the file's level and wealth, L's membership
\* row has role 'leader', every other id of M has a row with role 'member',
\* and the sect has no other membership row.
C10_SectMigration ==
  (last.op = "migrate_json_to_db" /\ last.ret /\ pre = EmptyStore) =>
    \A i \in 1..Len(files.sects) :
      LET s == files.sects[i].k
          e == files.sects[i].v
          L == PyStr(e.leader)
      IN (e.isdict /\ {"leader", "members", "level", "wealth"} \subseteq e.keys) =>
           /\ s \in DOMAIN db.sects
           /\ db.sects[s].leader_id = L
           /\ db.sects[s].level = e.level
           /\ db.sects[s].wealth = e.wealth
           /\ RolesOf(db, s) =
                {[user_id |-> L, role |-> "leader"]}
                  \cup {[user_id |-> m, role |-> "member"] : m \in ListedIds(e) \ {L}}

\* the file {"s1": {leader "100", members ["100","101","102"], level 2,
\* wealth 500}} has been migrated into an empty store
C10_Witness ==
  /\ last.op = "migrate_json_to_db"
  /\ last.ret
  /\ pre = EmptyStore
  /\ Len(files.sects) = 1
  /\ files.sects[1].v.level = 2
  /\ "s1" \in DOMAIN db.sects
  /\ RolesOf(db, "s1") =
       {[user_id |-> "100", role |-> "leader"],
        [user_id |-> "101", role |-> "member"],
        [user_id |-> "102", role |-> "member"]}

\* the tournament_participants rows of (tournament, participant)
ParticipantRows(store, t, pid) ==
  {q \in store.tournament_participants : q.tournament_id = t /\ q.participant_id = pid}

\* C11: bot classification at migration.  After a migration that ran to its
\* end, every participant id p of a tournament object of the tournaments file
\* has one row under str(p); its is_bot is true exactly when p is a number
\* below zero; a bot's bot_name is bot_names[str(p)] when the table has it and
\* NULL otherwise; a non-bot's bot_name is NULL.
C11_BotClassification ==
  (last.op = "migrate_json_to_db" /\ last.ret) =>
    \A i \in 1..Len(files.tournaments) :
      LET t == files.tournaments[i].k
          e == files.tournaments[i].v
      IN (e.isdict /\ "participants" \in e.keys) =>
           \A j \in 1..Len(e.participants) :
             LET p == e.participants[j]
                 bot == p.t = "int" /\ p.n < 0
                 named == bot /\ "bot_names" \in e.keys /\ DictHas(e.bot_names, PyStr(p))
             IN \E q \in ParticipantRows(db, t, PyStr(p)) :
                  /\ ParticipantRows(db, t, PyStr(p)) = {q}
                  /\ q.is_bot = bot
                  /\ q.bot_name = IF named THEN DictGet(e.bot_names, PyStr(p), NULL)
                                  ELSE NULL

\* participants [200, -1, -2] with bot_names {"-1": "Iron Golem"} have been
\* migrated: "-1" is a named bot, "-2" an unnamed bot, "200" a user
C11_Witness ==
  /\ last.op = "migrate_json_to_db"
  /\ last.ret
  /\ \E q \in ParticipantRows(db, "t1", "-1") : q.is_bot /\ q.bot_name = "Iron Golem"
  /\ \E q \in ParticipantRows(db, "t1", "-2") : q.is_bot /\ q.bot_name = NULL
  /\ \E q \in ParticipantRows(db, "t1", "200") : ~q.is_bot /\ q.bot_name = NULL

(***************************************************************************)
(* Actions: the tournament operations                                      *)
(***************************************************************************)
TournamentIds == {"t1", "t2"}

\* (participant_id, is_bot, bot_name) as callers of add_tournament_participant
\* pass them
ParticipantInputs ==
  {[id |-> JInt(-1), is_bot |-> TRUE, bot_name |-> "Iron Golem"],
   [id |-> JInt(-2), is_bot |-> TRUE, bot_name |-> NULL],
   [id |-> JStr("100"), is_bot |-> FALSE, bot_name |-> NULL],
   [id |-> JInt(101), is_bot |-> FALSE, bot_name |-> NULL]}

\* a tournament record that is not an object
MalformedTournament ==
  [isdict |-> FALSE, keys |-> {},
   host |-> JNone, title |-> "", description |-> "", status |-> "", winner |-> JNone,
   participants |-> <<>>, bot_names |-> <<>>,
   add_money |-> 0, set_money |-> 0, rem_money |-> 0, reward_title |-> ""]

TournamentSaveDocs ==
  TournamentDocs
    \cup {<<[k |-> "t1", v |-> TournamentEntry(<<JInt(-1), JStr("100")>>,
                                               <<[k |-> "-1", v |-> "Iron Golem"]>>)],
           [k |-> "t2", v |-> UnnamedBotsEntry(<<JInt(-2), JInt(101)>>)]>>,
          <<[k |-> "t2", v |-> BareTournamentEntry],
            [k |-> "t1", v |-> MalformedTournament]>>}

CreateTournament ==
  \E t \in TournamentIds :
    /\ clock < MaxClock
    /\ Call("create_tournament", [tournament_id |-> t],
            create_tournament(db, t, JStr("100"), "Spring Cup", "", <<>>, clock + 1))

AddTournamentParticipant ==
  \E t \in TournamentIds, p \in ParticipantInputs :
    /\ clock < MaxClock
    /\ Call("add_tournament_participant", [tournament_id |-> t, participant |-> p],
            add_tournament_participant(db, t, p.id, p.is_bot, p.bot_name, clock + 1))

RemoveTournamentParticipant ==
  \E t \in TournamentIds, p \in {JInt(-1), JStr("100")} :
    /\ clock < MaxClock
    /\ Call("remove_tournament_participant", [tournament_id |-> t, participant_id |-> p],
            remove_tournament_participant(db, t, p))

SaveTournamentsData ==
  \E data \in TournamentSaveDocs :
    /\ clock < MaxClock
    /\ LET r == save_tournaments_data(db, data, clock + 1)
       IN Call("save_tournaments_data", data, [db |-> r.db, ret |-> ~r.raised])

\* save_json(TOURNAMENTS_FILE, load_json(TOURNAMENTS_FILE))
ResaveTournaments ==
  /\ clock < MaxClock
  /\ LET data == get_tournaments_data(db)
         r == save_tournaments_data(db, data, clock + 1)
     IN Call("resave_tournaments", data, [db |-> r.db, ret |-> ~r.raised])

NextTournaments ==
  \/ CreateTournament \/ AddTournamentParticipant \/ RemoveTournamentParticipant
  \/ SaveTournamentsData \/ ResaveTournaments

SpecTournaments == Init /\ [][NextTournaments]_vars

(***************************************************************************)
(* Properties of the tournament operations (specification SpecTournaments) *)
(***************************************************************************)
\* the store a projected tournaments document is absorbed into when no
\* tournament is stored
Restored(store, now) ==
  save_tournaments_data(EmptyStore, get_tournaments_data(store), now).db

\* C12: bot classification is consistent between projection and absorb.
\* Every participant of a stored tournament that is stored with is_bot = true
\* is listed by get_tournaments_data as a number below zero, and absorbing the
\* projected document into a store without the tournament gives the
\* participant the same is_bot and, for a bot, the same bot_name.
C12_BotRoundTrip ==
  \A t \in DOMAIN db.tournaments :
    \A q \in get_tournament_participants(db, t) :
      /\ q.is_bot =>
           \E j \in 1..Len(TournamentEntryOf(db, t).participants) :
             LET p == TournamentEntryOf(db, t).participants[j]
             IN p.t = "int" /\ p.n < 0 /\ PyStr(p) = q.participant_id
      /\ \E r \in ParticipantRows(Restored(db, clock), t, q.participant_id) :
           /\ r.is_bot = q.is_bot
           /\ q.is_bot => r.bot_name = q.bot_name

(***************************************************************************)
(* Properties of the migration run (specification SpecMigrate)             *)
(***************************************************************************)
\* C13: migration steps are independent.  When a run of migrate_json_to_db
\* returns false because a step raised, the later steps have still been
\* executed: every job definition, store item, sect and tournament the files
\* hold in importable form is in storage.
C13_StepsIndependent ==
  (last.op = "migrate_json_to_db" /\ ~last.ret) =>
    /\ \A i \in 1..Len(files.jobs) :
         (files.jobs[i].v.islist /\ Len(files.jobs[i].v.items) >= 2)
           => files.jobs[i].k \in DOMAIN db.jobs
    /\ \A i \in 1..Len(files.store) :
         files.store[i].v.isdict => files.store[i].k \in DOMAIN db.store_items
    /\ \A i \in 1..Len(files.sects) :
         files.sects[i].v.isdict => files.sects[i].k \in DOMAIN db.sects
    /\ \A i \in 1..Len(files.tournaments) :
         files.tournaments[i].v.isdict => files.tournaments[i].k \in DOMAIN db.tournaments

(***************************************************************************)
(* The migration run statement by statement.  pc is the position of the    *)
(* run inside the try block of migrate_json_to_db: the step to call next,  *)
(* or "true" / "false" once the function has returned that value ("idle"   *)
(* before the first run).                                                  *)
(***************************************************************************)
\* faulty variant of StepAfter: tournaments are migrated before sects
StepAfterSwapped(step) ==
  CASE step = "economy" -> "jobs"
    [] step = "jobs" -> "store"
    [] step = "store" -> "tournaments"
    [] step = "tournaments" -> "sects"
    [] step = "sects" -> "true"

\* the statement that follows a step that returned
StepAfter(step) ==
  CASE step = "economy" -> "jobs"
    [] step = "jobs" -> "store"
    [] step = "store" -> "sects"
    [] step = "sects" -> "tournaments"
    [] step = "tournaments" -> "true"

\* the effect of one step: it returned (r.raised FALSE) or raised into the
\* except clause, which returns False
MigrationStep(step, r) ==
  /\ pre' = db
  /\ db' = r.db
  /\ last' = [op |-> step, ret |-> ~r.raised]
  /\ arg' = <<>>
  /\ pc' = IF r.raised THEN "false" ELSE StepAfter(step)
  /\ UNCHANGED <<files, callers>>

RunMigrateEconomy ==
  /\ pc \in {"idle", "true", "false"}
  /\ clock < MaxClock
  /\ clock' = clock + 1
  /\ MigrationStep("economy", migrate_economy(db, files.economy, 1, clock + 1))

RunMigrateJobs ==
  /\ pc = "jobs"
  /\ UNCHANGED clock
  /\ MigrationStep("jobs", migrate_jobs(db, files.jobs, 1))

RunMigrateStore ==
  /\ pc = "store"
  /\ UNCHANGED clock
  /\ MigrationStep("store", migrate_store(db, files.store, 1))

RunMigrateSects ==
  /\ pc = "sects"
  /\ UNCHANGED clock
  /\ MigrationStep("sects", migrate_sects(db, files.sects, 1, clock))

RunMigrateTournaments ==
  /\ pc = "tournaments"
  /\ UNCHANGED clock
  /\ MigrationStep("tournaments", migrate_tournaments(db, files.tournaments, 1, clock))

NextMigrateSteps ==
  \/ RunMigrateEconomy \/ RunMigrateJobs \/ RunMigrateStore
  \/ RunMigrateSects \/ RunMigrateTournaments

SpecMigrateSteps == InitMigrate /\ [][NextMigrateSteps]_vars

(***************************************************************************)
(* Properties of the steps (specification SpecMigrateSteps)                *)
(***************************************************************************)
\* every user_jobs, sect_members and tournaments row refers to a stored user
UsersReferenced(store) ==
  /\ \A j \in store.user_jobs : j.user_id \in DOMAIN store.users
  /\ \A m \in store.sect_members : m.user_id \in DOMAIN store.users
  /\ \A t \in DOMAIN store.tournaments : store.tournaments[t].host_id \in DOMAIN store.users

\* C14: migration order.  In every run the steps are taken in the order
\* economy, jobs, store, sects, tournaments, one at a time: a step is followed
\* by the next one or by the return of False, each step writes only the
\* tables of its entity kind (and the users its rows refer to), and after
\* every step each user_jobs, sect_members and tournaments row refers to a
\* users row.
C14_MigrationOrder ==
  [][/\ (pc \in {"idle", "true", "false"}) =>
          (last'.op = "economy" /\ pc' \in {"jobs", "false"})
     /\ pc = "jobs" => (last'.op = "jobs" /\ pc' \in {"store", "false"})
     /\ pc = "store" => (last'.op = "store" /\ pc' \in {"sects", "false"})
     /\ pc = "sects" => (last'.op = "sects" /\ pc' \in {"tournaments", "false"})
     /\ pc = "tournaments" => (last'.op = "tournaments" /\ pc' \in {"true", "false"})
     /\ last'.op # "jobs" => db'.jobs = db.jobs
     /\ last'.op # "store" => db'.store_items = db.store_items
     /\ last'.op # "sects" => (db'.sects = db.sects /\ db'.sect_members = db.sect_members)
     /\ last'.op # "tournaments" =>
          (db'.tournaments = db.tournaments
             /\ db'.tournament_participants = db.tournament_participants)
     /\ last'.op # "economy" =>
          (db'.inventory = db.inventory /\ db'.user_jobs = db.user_jobs)
     /\ UsersReferenced(db')]_vars

\* a run has gone through all five steps and written a sect and a tournament
C14_Witness ==
  /\ pc = "true"
  /\ last.op = "tournaments"
  /\ db.sects # <<>>
  /\ db.tournaments # <<>>
  /\ db.user_jobs # {}

\* C15: the migration trigger.  When `migrate.py run` has run a migration
\* that reported failure, the process exit status is not zero.
C15_ExitStatus ==
  (last.op = "migrate_py_run" /\ ~last.ret.success) => last.ret.exit_status # 0

(***************************************************************************)
(* Properties of users and inventory (specification SpecEconomy)           *)
(***************************************************************************)
\* C16: lazy creation idempotence.  For a user id absent from storage,
\* get_user persists a row with cash 0, bank 0 and message_count 0, and a
\* second get_user with no write in between returns the same record as the
\* first: the same fields with the same values.
C16_LazyCreationIdempotent ==
  [][(/\ last.op = "get_user"
      /\ arg.user_id \notin DOMAIN pre.users
      /\ last'.op = "get_user"
      /\ arg' = arg)
       => /\ arg.user_id \in DOMAIN db.users
          /\ db.users[arg.user_id].cash = 0
          /\ db.users[arg.user_id].bank = 0
          /\ db.users[arg.user_id].message_count = 0
          /\ last'.ret = last.ret]_vars

\* the inventory rows of a (user_id, item_name, rarity) triple
TripleRows(store, u, name, rarity) ==
  {r \in store.inventory : r.user_id = u /\ r.item_name = name /\ r.rarity = rarity}

\* C17: inventory merge invariant.  No two inventory rows share
\* (user_id, item_name, rarity); a successful add_inventory_item on a stored
\* triple adds the quantity to that row and changes nothing else, and on a
\* new triple inserts one row with a fresh id and leaves every other row,
\* those of other rarities of the item included, as it was.
C17_InventoryMerge ==
  /\ \A r1 \in db.inventory : \A r2 \in db.inventory :
       (r1.user_id = r2.user_id /\ r1.item_name = r2.item_name /\ r1.rarity = r2.rarity)
         => r1 = r2
  /\ (last.op = "add_inventory_item" /\ last.ret) =>
       LET old == TripleRows(pre, arg.user_id, arg.item_name, arg.rarity)
           new == TripleRows(db, arg.user_id, arg.item_name, arg.rarity)
       IN /\ db.inventory \ new = pre.inventory \ old
          /\ \E r \in new :
               /\ new = {r}
               /\ IF old = {}
                    THEN r.quantity = arg.quantity
                           /\ \A q \in pre.inventory : q.id # r.id
                    ELSE \E o \in old :
                           r = [o EXCEPT !.quantity = o.quantity + arg.quantity]

\* a rare Sword has been added for a user who held a common Sword, and the
\* common row is as it was
C17_Witness ==
  /\ last.op = "add_inventory_item"
  /\ last.ret
  /\ arg.rarity = "rare"
  /\ TripleRows(pre, "100", "Sword", "rare") = {}
  /\ TripleRows(pre, "100", "Sword", "common") # {}
  /\ TripleRows(db, "100", "Sword", "common") = TripleRows(pre, "100", "Sword", "common")
  /\ TripleRows(db, "100", "Sword", "rare") # {}

\* the rows remove_inventory_item(user, name, q, rarity) selects from
MatchingRows(store, a) ==
  {r \in store.inventory :
     /\ r.user_id = a.user_id
     /\ r.item_name = a.item_name
     /\ (a.rarity # "" => r.rarity = a.rarity)}

\* C18: inventory depletion.  A successful remove_inventory_item acts on one
\* matching row with quantity c: the row is deleted when q >= c, and kept with
\* quantity c - q otherwise; no other inventory row is changed.
C18_InventoryDepletion ==
  (last.op = "remove_inventory_item" /\ last.ret) =>
    \E r \in MatchingRows(pre, arg) :
      IF arg.quantity >= r.quantity
        THEN db.inventory = pre.inventory \ {r}
        ELSE db.inventory =
               (pre.inventory \ {r}) \cup {[r EXCEPT !.quantity = r.quantity - arg.quantity]}

\* remove_inventory_item with q = 2 has deleted a row that held exactly 2
C18_Witness ==
  /\ last.op = "remove_inventory_item"
  /\ last.ret
  /\ arg.quantity = 2
  /\ \E r \in MatchingRows(pre, arg) : r.quantity = 2 /\ db.inventory = pre.inventory \ {r}

\* C19: every inventory row has quantity >= 1 in every reachable state.
C19_PositiveQuantity ==
  \A r \in db.inventory : r.quantity >= 1

\* the item names among the inventory rows of a user
ItemNames(store, u) == {r.item_name : r \in {x \in store.inventory : x.user_id = u}}

\* C20: economy inventory reconciliation.  After save_economy_data ended
\* without an exception, for every user record of the document that has an
\* inventory list L the item names among the user's inventory rows are the
\* names in L.
C20_InventoryReconciled ==
  (last.op = "save_economy_data" /\ last.ret) =>
    \A i \in 1..Len(arg) :
      "inventory" \in arg[i].v.keys =>
        ItemNames(db, arg[i].k) =
          {PyStr(arg[i].v.inventory[j]) : j \in 1..Len(arg[i].v.inventory)}

(***************************************************************************)
(* Actions: the sect and tournament operations of the Database class       *)
(***************************************************************************)
\* data dictionaries as callers of update_sect pass them
SectUpdates ==
  {[level |-> 2], [wealth |-> 5, description |-> "risen"], [sect_id |-> "s9"],
   [motto |-> "x"]}

RemoveSectMember ==
  \E s \in SectIds, u \in UserIds :
    /\ clock < MaxClock
    /\ Call("remove_sect_member", [sect_id |-> s, user_id |-> u],
            remove_sect_member(db, s, JStr(u)))

UpdateSect ==
  \E s \in SectIds, data \in SectUpdates :
    /\ clock < MaxClock
    /\ Call("update_sect", [sect_id |-> s, data |-> data], update_sect(db, s, data))

\* data dictionaries as callers of update_tournament pass them
TournamentUpdates ==
  {[status |-> "active"], [status |-> "finished", winner_id |-> "100"],
   [tournament_id |-> "t9"], [prize |-> "x"]}

UpdateTournament ==
  \E t \in TournamentIds, data \in TournamentUpdates :
    /\ clock < MaxClock
    /\ Call("update_tournament", [tournament_id |-> t, data |-> data],
            update_tournament(db, t, data))

NextEntityOps ==
  \/ CreateSect \/ AddSectMember \/ RemoveSectMember \/ UpdateSect
  \/ CreateTournament \/ AddTournamentParticipant \/ UpdateTournament

SpecEntityOps == Init /\ [][NextEntityOps]_vars

\* C21: removal of an absent target is a no-op success.  remove_sect_member,
\* remove_tournament_participant and remove_inventory_item, called for a
\* member, participant or item that is not stored, return true and leave the
\* store unchanged.
C21_RemoveAbsent ==
  /\ (/\ last.op = "remove_sect_member"
      /\ ~\E m \in pre.sect_members :
            m.sect_id = arg.sect_id /\ m.user_id = arg.user_id)
       => (last.ret /\ db = pre)
  /\ (/\ last.op = "remove_tournament_participant"
      /\ ~\E p \in pre.tournament_participants :
            /\ p.tournament_id = arg.tournament_id
            /\ p.participant_id = PyStr(arg.participant_id))
       => (last.ret /\ db = pre)
  /\ (last.op = "remove_inventory_item" /\ MatchingRows(pre, arg) = {})
       => (last.ret /\ db = pre)

\* the rows of a keyed table agree outside the columns `named` of row `id`
OnlyColumnsChanged(old, new, id, named) ==
  /\ DOMAIN new = DOMAIN old
  /\ \A k \in DOMAIN old \ {id} : new[k] = old[k]
  /\ \A c \in DOMAIN old[id] \ named : new[id][c] = old[id][c]

\* C22: update_sect and update_tournament on an id that is not stored return
\* false and leave the store unchanged; on a stored id they change only the
\* named columns of that one row, and a call that returns false changes
\* nothing.
C22_UpdateExisting ==
  /\ last.op = "update_sect" =>
       IF arg.sect_id \notin DOMAIN pre.sects
         THEN ~last.ret /\ db = pre
         ELSE /\ db = [pre EXCEPT !.sects = db.sects]
              /\ OnlyColumnsChanged(pre.sects, db.sects, arg.sect_id, DOMAIN arg.data)
              /\ last.ret =>
                   \A c \in DOMAIN arg.data \ {"sect_id"} :
                     db.sects[arg.sect_id][c] = arg.data[c]
              /\ ~last.ret => db = pre
  /\ last.op = "update_tournament" =>
       IF arg.tournament_id \notin DOMAIN pre.tournaments
         THEN ~last.ret /\ db = pre
         ELSE /\ db = [pre EXCEPT !.tournaments = db.tournaments]
              /\ OnlyColumnsChanged(pre.tournaments, db.tournaments,
                                    arg.tournament_id, DOMAIN arg.data)
              /\ last.ret =>
                   \A c \in DOMAIN arg.data \ {"tournament_id"} :
                     db.tournaments[arg.tournament_id][c] = arg.data[c]
              /\ ~last.ret => db = pre

\* update_tournament has set the status and the winner of a stored tournament
C22_Witness ==
  /\ last.op = "update_tournament"
  /\ last.ret
  /\ arg.tournament_id \in DOMAIN pre.tournaments
  /\ arg.data = [status |-> "finished", winner_id |-> "100"]
  /\ db.tournaments[arg.tournament_id].status = "finished"
  /\ pre.tournaments[arg.tournament_id].status = "recruiting"

\* the sect_members rows of a sect
MembersOf(store, sect_id) == {m \in store.sect_members : m.sect_id = sect_id}

\* C23: create_sect and create_tournament called with an id that is already
\* stored return false and leave the stored row and its members or
\* participants unchanged.
C23_CreateDuplicate ==
  /\ (last.op = "create_sect" /\ arg.sect_id \in DOMAIN pre.sects) =>
       /\ ~last.ret
       /\ db.sects = pre.sects
       /\ MembersOf(db, arg.sect_id) = MembersOf(pre, arg.sect_id)
  /\ (last.op = "create_tournament" /\ arg.tournament_id \in DOMAIN pre.tournaments) =>
       /\ ~last.ret
       /\ db.tournaments = pre.tournaments
       /\ get_tournament_participants(db, arg.tournament_id)
            = get_tournament_participants(pre, arg.tournament_id)

\* create_tournament was refused for a stored tournament that has participants
C23_Witness ==
  /\ last.op = "create_tournament"
  /\ ~last.ret
  /\ arg.tournament_id \in DOMAIN pre.tournaments
  /\ pre.tournaments[arg.tournament_id].created_at < clock
  /\ get_tournament_participants(db, arg.tournament_id) # {}

\* the columns of the users table besides the key
UserColumns ==
  {"cash", "bank", "job", "last_cultivate", "last_collect", "message_count",
   "created_at", "updated_at"}

\* the user columns other than user_id that the dictionary names
NamedColumns(data) == (DOMAIN data \cap UserColumns) \ {"user_id"}

\* C24: update_user(id, fields) returns true, changes only the columns of
\* user id that are named in fields and are user columns other than user_id
\* (plus updated_at), and leaves storage unchanged when no such field
\* remains after filtering.
C24_UpdateUserFrame ==
  last.op = "update_user" =>
    /\ last.ret
    /\ db = [pre EXCEPT !.users = db.users]
    /\ \A v \in DOMAIN pre.users \ {arg.user_id} :
         v \in DOMAIN db.users /\ db.users[v] = pre.users[v]
    /\ arg.user_id \in DOMAIN pre.users =>
         \A c \in UserColumns \ (NamedColumns(arg.data) \cup {"updated_at"}) :
           db.users[arg.user_id][c] = pre.users[arg.user_id][c]
    /\ NamedColumns(arg.data) = {} => db = pre

\* the sect_members rows of one (sect_id, user_id) pair
MembershipRows(store, sect_id, user_id) ==
  {m \in store.sect_members : m.sect_id = sect_id /\ m.user_id = user_id}

\* C25: sect membership is unique and last-write-wins.  There is at most one
\* sect_members row per (sect_id, user_id), and after add_sect_member(s, u, r)
\* returned true the single row of (s, u) has role r, whatever role it had.
C25_MembershipUnique ==
  /\ \A m \in db.sect_members :
       MembershipRows(db, m.sect_id, m.user_id) = {m}
  /\ (last.op = "add_sect_member" /\ last.ret) =>
       /\ arg.sect_id \in DOMAIN pre.sects
       /\ \E m \in db.sect_members :
            /\ MembershipRows(db, arg.sect_id, arg.user_id) = {m}
            /\ m.role = arg.role

\* add_sect_member has replaced the role of a stored membership
C25_Witness ==
  /\ last.op = "add_sect_member"
  /\ last.ret
  /\ \E m \in MembershipRows(pre, arg.sect_id, arg.user_id) : m.role # arg.role
  /\ \E m \in MembershipRows(db, arg.sect_id, arg.user_id) : m.role = arg.role

\* C26: unlimited stock is never decremented.  update_store_item_stock on a
\* stored item whose stock is -1 returns true and changes nothing; on a
\* stored item with another stock s it returns true and stores
\* max(0, s + change), and nothing else changes.
C26_UnlimitedStock ==
  (last.op = "update_store_item_stock" /\ arg.item_name \in DOMAIN pre.store_items) =>
    /\ last.ret
    /\ IF pre.store_items[arg.item_name].stock = -1
         THEN db = pre
         ELSE db = [pre EXCEPT !.store_items[arg.item_name].stock =
                                  Max(0, pre.store_items[arg.item_name].stock + arg.change)]

\* update_store_item_stock(-5) has run on an item with unlimited stock
C26_Witness ==
  /\ last.op = "update_store_item_stock"
  /\ last.ret
  /\ arg.change = -5
  /\ arg.item_name \in DOMAIN pre.store_items
  /\ pre.store_items[arg.item_name].stock = -1
  /\ db.store_items[arg.item_name].stock = -1

(***************************************************************************)
(* Actions: reads of users, user jobs and tournaments                      *)
(***************************************************************************)
GetUserJob ==
  \E u \in EconUsers :
    /\ clock < MaxClock
    /\ Call("get_user_job", [user_id |-> u, job_name |-> "miner"],
            [db |-> db, ret |-> get_user_job(db, JStr(u), "miner")])

\* ret.found is FALSE when get_tournament returns None
GetTournament ==
  \E t \in TournamentIds :
    /\ clock < MaxClock
    /\ Call("get_tournament", [tournament_id |-> t],
            [db |-> db, ret |-> get_tournament(db, t)])

NextReads ==
  \/ GetUser \/ GetUserJob \/ GetTournament
  \/ UpdateUserJob \/ CreateTournament

SpecReads == Init /\ [][NextReads]_vars

\* C27: read asymmetry.  Reading a user that is not stored persists a
\* zero-valued users row; get_user_job and get_tournament for a record that
\* is not stored return a zero-valued record and leave storage unchanged.
C27_ReadAsymmetry ==
  /\ (last.op = "get_user" /\ arg.user_id \notin DOMAIN pre.users) =>
       /\ arg.user_id \in DOMAIN db.users
       /\ db.users[arg.user_id].cash = 0
       /\ db.users[arg.user_id].bank = 0
       /\ db.users[arg.user_id].message_count = 0
  /\ (/\ last.op = "get_user_job"
      /\ ~\E r \in pre.user_jobs :
            r.user_id = arg.user_id /\ r.job_name = arg.job_name) =>
       /\ db = pre
       /\ last.ret = [user_id |-> arg.user_id, job_name |-> arg.job_name, xp |-> 0,
                      rank |-> "apprentice", last_work |-> NULL]
  /\ (last.op = "get_tournament" /\ arg.tournament_id \notin DOMAIN pre.tournaments) =>
       /\ db = pre
       /\ last.ret.found

(***************************************************************************)
(* Actions: user metadata.  The database file is opened as it was left: a  *)
(* meta_value written by another program need not be JSON.                 *)
(***************************************************************************)
MetaValues == {PyNone, PyDict(<<>>), PyDict(<<[k |-> "daily", v |-> 1]>>)}

\* the user_meta table found when the database file is opened
StoredMeta ==
  {{},
   {[user_id |-> "100", meta_key |-> "last_collects", meta_value |-> "{\"daily\": 1}"]},
   {[user_id |-> "100", meta_key |-> "last_collects", meta_value |-> "oops"]},
   {[user_id |-> "100", meta_key |-> "last_collects", meta_value |-> ""],
    [user_id |-> "101", meta_key |-> "last_collects", meta_value |-> "{}"]}}

InitMeta ==
  /\ db \in {[EmptyStore EXCEPT !.user_meta = m] : m \in StoredMeta}
  /\ clock = 0
  /\ last = [op |-> "init", ret |-> TRUE]
  /\ arg = <<>>
  /\ pre = db
  /\ files = NoFiles
  /\ pc = "idle"
  /\ callers = NoCallers

SetUserMeta ==
  \E u \in EconUsers, v \in MetaValues :
    /\ clock < MaxClock
    /\ Call("set_user_meta", [user_id |-> u, meta_key |-> "last_collects", meta_value |-> v],
            set_user_meta(db, JStr(u), "last_collects", v, clock + 1))

GetUserMeta ==
  \E u \in EconUsers :
    /\ clock < MaxClock
    /\ Call("get_user_meta", [user_id |-> u, meta_key |-> "last_collects"],
            [db |-> db, ret |-> get_user_meta(db, JStr(u), "last_collects")])

NextMeta == SetUserMeta \/ GetUserMeta

SpecMeta == InitMeta /\ [][NextMeta]_vars

\* C28: malformed structured data degrades to empty.  get_user_meta on a row
\* whose meta_value is not parseable raises nothing and returns an empty
\* structure.
C28_MalformedDegrades ==
  (/\ last.op = "get_user_meta"
   /\ \E r \in pre.user_meta :
        /\ r.user_id = arg.user_id
        /\ r.meta_key = arg.meta_key
        /\ json_loads(r.meta_value).raised) =>
    /\ ~last.ret.raised
    /\ last.ret.value.items = <<>>

(***************************************************************************)
(* Actions: get_user when sqlite3 raises                                   *)
(***************************************************************************)
GetUserUnderFault ==
  \E u \in EconUsers, fault \in Faults :
    /\ clock < MaxClock
    /\ Call("get_user", [user_id |-> u, fault |-> fault],
            get_user_under(db, JStr(u), clock + 1, fault))

Close ==
  /\ clock < MaxClock
  /\ ~db.closed
  /\ Call("close", <<>>, [db |-> close(db), ret |-> TRUE])

NextFaults == GetUserUnderFault \/ Close

SpecFaults == Init /\ [][NextFaults]_vars

\* the storage layer raised during the last get_user call
StorageErrorRaised ==
  \/ pre.closed
  \/ arg.fault = "select"
  \/ arg.user_id \notin DOMAIN pre.users /\ arg.fault \in {"insert", "commit"}

\* C29: get_user never fails.  When the storage layer raises during the
\* lookup or the implicit insert, get_user raises nothing, returns the
\* zero-valued record of the id, and persists no users row for it.
C29_GetUserNeverFails ==
  (last.op = "get_user" /\ StorageErrorRaised) =>
    /\ ~last.ret.raised
    /\ last.ret.value = ZeroUser(arg.user_id)
    /\ db = pre

\* a delta that is not an integer: None, text that int() rejects, or a float
\* with a fractional part
NotAnInteger(amount) ==
  \/ amount.t = "none"
  \/ amount.t = "str" /\ ~PyInt(amount).ok
  \/ amount.t = "float" /\ amount.n % 10 # 0

\* C30: add_cash and add_bank with a delta that is not an integer treat the
\* delta as zero: the call returns true and the balance is unchanged.  Stated
\* for users whose balances are not negative.
C30_NonIntegerDelta ==
  (/\ last.op \in {"add_cash", "add_bank"}
   /\ NotAnInteger(arg.amount)
   /\ BalanceOf(pre, arg.user_id).cash >= 0
   /\ BalanceOf(pre, arg.user_id).bank >= 0) =>
    /\ last.ret
    /\ BalanceOf(db, arg.user_id) = BalanceOf(pre, arg.user_id)

(***************************************************************************)
(* Actions: projection when a storage read raises                          *)
(***************************************************************************)
GetSectsDataUnderFault ==
  \E fault \in ReadFaults, at \in SectIds :
    /\ clock < MaxClock
    /\ Call("get_sects_data", [fault |-> fault, at |-> at],
            [db |-> db, ret |-> get_sects_data_under(db, fault, at)])

GetTournamentsDataUnderFault ==
  \E fault \in ReadFaults, at \in TournamentIds :
    /\ clock < MaxClock
    /\ Call("get_tournaments_data", [fault |-> fault, at |-> at],
            [db |-> db, ret |-> get_tournaments_data_under(db, fault, at)])

NextProjection ==
  \/ CreateSect
  \/ AddSectMember
  \/ CreateTournament
  \/ AddTournamentParticipant
  \/ GetSectsDataUnderFault
  \/ GetTournamentsDataUnderFault

SpecProjection == Init /\ [][NextProjection]_vars

\* a storage read raised while the last projection assembled its document
ProjectionReadFailed ==
  /\ last.op \in {"get_sects_data", "get_tournaments_data"}
  /\ \/ arg.fault = "ids"
     \/ /\ arg.fault \in {"parent", "children"}
        /\ arg.at \in (IF last.op = "get_sects_data"
                         THEN DOMAIN pre.sects ELSE DOMAIN pre.tournaments)

\* C31: projection never yields a partially hydrated view.  When a storage
\* read fails while get_sects_data or get_tournaments_data assembles its
\* document, a failed read of one parent's child rows included, the function
\* returns the empty document.
C31_NoPartialView ==
  ProjectionReadFailed => last.ret = <<>>

(***************************************************************************)
(* Actions: users under save_economy_data                                  *)
(***************************************************************************)
\* the user record e with a last_collects object
WithLastCollects(e, v) ==
  [f \in DOMAIN e \cup {"last_collects"} |->
     IF f = "last_collects" THEN v
     ELSE IF f = "keys" THEN e.keys \cup {"last_collects"}
     ELSE e[f]]

UserSaveDocs ==
  {<<>>,
   <<[k |-> "101", v |-> WithLastCollects(EconomyEntry(5, 0, <<JStr("Bow")>>, <<>>),
                                          PyDict(<<>>))]>>,
   <<[k |-> "100", v |-> WithLastCollects(BareEconomyEntry(7),
                                          PyDict(<<[k |-> "daily", v |-> 1]>>))]>>,
   <<[k |-> "101", v |-> BareEconomyEntry(3)],
     [k |-> "100", v |-> EconomyEntry(0, 0, <<>>, <<>>)]>>}

SaveEconomyDocument ==
  \E data \in UserSaveDocs :
    /\ clock < MaxClock
    /\ Call("save_economy_data", data,
            Returned(save_economy_data(db, data, 1, clock + 1)))

NextUsers ==
  \/ SaveEconomyDocument
  \/ GetUser
  \/ UpdateUser
  \/ AddInventoryItem
  \/ RemoveInventoryItem
  \/ SetUserMeta

SpecUsers == Init /\ [][NextUsers]_vars

\* the inventory and metadata rows of user u
OwnedRows(store, u) ==
  [inventory |-> {r \in store.inventory : r.user_id = u},
   user_meta |-> {r \in store.user_meta : r.user_id = u}]

\* C32: users are never deleted.  Every call leaves every stored user id in
\* storage, and save_economy_data with a document that omits a stored user
\* leaves that user's row, inventory and metadata as they were.
C32_UsersNeverDeleted ==
  /\ DOMAIN pre.users \subseteq DOMAIN db.users
  /\ last.op = "save_economy_data" =>
       \A u \in DOMAIN pre.users \ DocKeys(arg) :
         /\ db.users[u] = pre.users[u]
         /\ OwnedRows(db, u) = OwnedRows(pre, u)

C32_Witness ==
  /\ last.op = "save_economy_data"
  /\ \E i \in 1..Len(arg) : "last_collects" \in arg[i].v.keys
  /\ \E u \in DOMAIN pre.users \ DocKeys(arg) :
       /\ OwnedRows(pre, u).inventory # {}
       /\ OwnedRows(pre, u).user_meta # {}
       /\ u \in DOMAIN db.users

(***************************************************************************)
(* Actions: load_json and save_json on the routed files                    *)
(***************************************************************************)
RoutedFiles == {DATA_FILE, JOBS_FILE, STORE_FILE, SECTS_FILE, TOURNAMENTS_FILE}

\* the paths callers pass: the file in the working directory or in data/
JsonPaths == {<<n>> : n \in {STORE_FILE, JOBS_FILE}}
               \cup {<<"data", n>> : n \in RoutedFiles}

\* the documents callers save under a routed name
JsonDocs(name) ==
  IF name = DATA_FILE
    THEN {<<>>, <<[k |-> "100", v |-> EconomyEntry(50, 10, <<JStr("Sword")>>, <<>>)]>>}
  ELSE IF name = JOBS_FILE
    THEN JobsDocs
           \cup {<<[k |-> "miner", v |-> [islist |-> TRUE, items |-> <<2, 9>>]],
                   [k |-> "smith", v |-> [islist |-> TRUE, items |-> <<3, 4>>]]>>,
                 <<[k |-> "smith", v |-> [islist |-> TRUE, items |-> <<3, 4>>]]>>}
  ELSE IF name = STORE_FILE THEN StoreDocs
  ELSE IF name = SECTS_FILE
    THEN {<<>>, <<[k |-> "s1", v |-> SectEntry("100", <<JStr("100"), JStr("101")>>, 1, 0)]>>}
  ELSE TournamentDocs

SaveJson ==
  \E file_path \in JsonPaths :
    \E data \in JsonDocs(basename(file_path)) :
      /\ clock < MaxClock
      /\ LET r == save_json(db, file_path, data, clock + 1)
         IN Call("save_json", [file_path |-> file_path, data |-> data],
                 [db |-> r.db, ret |-> [raised |-> r.raised]])

LoadJson ==
  \E file_path \in JsonPaths :
    /\ clock < MaxClock
    /\ Call("load_json", [file_path |-> file_path],
            [db |-> db, ret |-> load_json(db, file_path, clock + 1)])

NextJson == SaveJson \/ LoadJson \/ SetStoreItem

SpecJson == Init /\ [][NextJson]_vars

\* C33: the store-items document can be absorbed.  save_json on a path whose
\* base name is a routed name does not raise, and after save_json on
\* store.json load_json on the same path has an entry for every item of the
\* document.
C33_StoreAbsorbed ==
  last.op = "save_json" =>
    /\ ~last.ret.raised
    /\ basename(arg.file_path) = STORE_FILE =>
         DocKeys(arg.data) \subseteq DOMAIN load_json(db, arg.file_path, clock)

(***************************************************************************)
(* Actions: sect documents whose members lists hold numbers                *)
(***************************************************************************)
NumericSectDocs ==
  {<<>>,
   <<[k |-> "s1", v |-> SectEntry("100", <<JStr("100"), JInt(101)>>, 1, 0)]>>,
   <<[k |-> "s1", v |-> SectEntry("100", <<JInt(100), JStr("101")>>, 1, 0)]>>,
   <<[k |-> "s2", v |-> SectEntry("101", <<JStr("101"), JInt(102)>>, 1, 0)]>>}

SaveNumericSects ==
  \E data \in NumericSectDocs :
    /\ clock < MaxClock
    /\ LET r == save_sects_data(db, data, clock + 1)
       IN Call("save_sects_data", data, [db |-> r.db, ret |-> ~r.raised])

NextNumericIds == CreateSect \/ AddSectMember \/ SaveNumericSects

SpecNumericIds == Init /\ [][NextNumericIds]_vars

\* the document with every member id given as the string str(id)
WithStringIds(data) ==
  [i \in 1..Len(data) |->
     [k |-> data[i].k,
      v |-> [data[i].v EXCEPT
               !.members = [j \in 1..Len(@) |-> JStr(PyStr(@[j]))]]]]

\* C34: numeric-looking ids are treated as strings in reconciliation.
\* Absorbing a sects document that gives a member id as a number has the
\* same effect as absorbing the document with that id given as a string.
C34_NumericIdsAsStrings ==
  last.op = "save_sects_data" =>
    db = save_sects_data(pre, WithStringIds(arg), clock).db

\* the rows of the item the last remove_inventory_item call could match
NamedRows(store) ==
  {r \in store.inventory : r.user_id = arg.user_id /\ r.item_name = arg.item_name}

StoredParticipantIds(store, t) ==
  {q.participant_id : q \in get_tournament_participants(store, t)}

\* C36: tournament participant reconciliation.  After a save_tournaments_data
\* that ran to its end, a tournament that was in storage and whose record
\* lists the participants P has the stored participant ids { str(p) : p in P };
\* the rows of participants that were stored and are listed are the rows they
\* were, and a participant that was not stored has is_bot true exactly when
\* its listed value is a number below zero.
C36_ParticipantsReconciled ==
  (last.op = "save_tournaments_data" /\ last.ret) =>
    \A i \in 1..Len(arg) :
      LET t == arg[i].k
          e == arg[i].v
          P == {e.participants[j] : j \in 1..Len(e.participants)}
      IN (t \in DOMAIN pre.tournaments /\ e.isdict /\ "participants" \in e.keys) =>
           /\ StoredParticipantIds(db, t) = {PyStr(p) : p \in P}
           /\ \A q \in get_tournament_participants(pre, t) :
                q.participant_id \in {PyStr(p) : p \in P}
                  => q \in db.tournament_participants
           /\ \A q \in get_tournament_participants(db, t) :
                q.participant_id \notin StoredParticipantIds(pre, t)
                  => \E p \in P : /\ PyStr(p) = q.participant_id
                                  /\ q.is_bot = (p.t = "int" /\ p.n < 0)

\* a save has kept one stored participant of t1, removed another and
\* inserted a bot and a user
C36_Witness ==
  /\ last.op = "save_tournaments_data"
  /\ last.ret
  /\ \E i \in 1..Len(arg) : arg[i].k = "t1" /\ "participants" \in arg[i].v.keys
  /\ "t1" \in DOMAIN pre.tournaments
  /\ StoredParticipantIds(pre, "t1") \cap StoredParticipantIds(db, "t1") # {}
  /\ StoredParticipantIds(pre, "t1") \ StoredParticipantIds(db, "t1") # {}
  /\ \E q \in get_tournament_participants(db, "t1") :
       q.participant_id \notin StoredParticipantIds(pre, "t1") /\ q.is_bot
  /\ \E q \in get_tournament_participants(db, "t1") :
       q.participant_id \notin StoredParticipantIds(pre, "t1") /\ ~q.is_bot

\* every value of the jobs document is a [min_pay, max_pay] pair
WellFormedJobs(data) ==
  \A i \in 1..Len(data) : data[i].v.islist /\ Len(data[i].v.items) = 2

\* the jobs document as get_jobs returns one: job name to pay range
JobsOf(data) ==
  [job_name \in DocKeys(data) |->
     LET pay_range == (CHOOSE i \in 1..Len(data) : data[i].k = job_name)
     IN [min_pay |-> data[pay_range].v.items[1], max_pay |-> data[pay_range].v.items[2]]]

\* C37: jobs document round-trip.  After save_jobs_data(doc) for a jobs
\* document whose values are all [min_pay, max_pay] pairs, load_json on
\* jobs.json returns exactly doc: every job of doc with its pay range and no
\* other job.
C37_JobsRoundTrip ==
  (/\ last.op = "save_json"
   /\ basename(arg.file_path) = JOBS_FILE
   /\ WellFormedJobs(arg.data)) =>
    /\ DOMAIN load_json(db, arg.file_path, clock) = DocKeys(arg.data)
    /\ \A job_name \in DocKeys(arg.data) :
         load_json(db, arg.file_path, clock)[job_name] = JobsOf(arg.data)[job_name]

(***************************************************************************)
(* The sect operations that name a leader                                  *)
(***************************************************************************)
NextLeader == CreateSect \/ SaveSectsData

SpecLeader == Init /\ [][NextLeader]_vars

\* C38: leader invariant.  In every state reached through create_sect and
\* save_sects_data each sect's leader_id has a sect_members row in that sect
\* with role 'leader', and no other member of the sect has role 'leader'.
C38_LeaderInvariant ==
  \A s \in DOMAIN db.sects :
    /\ \E m \in db.sect_members :
         m.sect_id = s /\ m.user_id = db.sects[s].leader_id /\ m.role = "leader"
    /\ \A m \in db.sect_members :
         (m.sect_id = s /\ m.role = "leader") => m.user_id = db.sects[s].leader_id

(***************************************************************************)
(* Actions: two callers that load the sects document, modify it in memory  *)
(* and save it.  pc of a caller goes start, loaded, modified, saved; stale *)
(* tells that the caller loaded after some caller had saved.               *)
(***************************************************************************)
SectsPath == <<"data", SECTS_FILE>>

\* the edits a caller makes to the document it holds
WithSect(data, s, e) ==
  IF s \in DocKeys(data) THEN data ELSE Append(data, [k |-> s, v |-> e])

WithoutSect(data, s) ==
  LET Kept(x) == x.k # s
  IN SelectSeq(data, Kept)

WithMember(data, s, u) ==
  [i \in 1..Len(data) |->
     IF data[i].k = s /\ ~PyIn(JStr(u), data[i].v.members)
       THEN [k |-> s, v |-> [data[i].v EXCEPT !.members = Append(@, JStr(u))]]
       ELSE data[i]]

Edits(data) ==
  {WithSect(data, "s2", SectEntry("101", <<JStr("101")>>, 1, 0)),
   WithoutSect(data, "s1"),
   WithMember(data, "s1", "102")}

CallerLoads ==
  \E c \in Callers :
    /\ callers[c].pc = "start"
    /\ callers' = [callers EXCEPT
                     ![c] = [pc |-> "loaded",
                             stale |-> \E d \in Callers : callers[d].pc = "saved",
                             data |-> load_json(db, SectsPath, clock)]]
    /\ UNCHANGED <<db, clock, last, arg, pre, files, pc>>

CallerEdits ==
  \E c \in Callers :
    /\ callers[c].pc = "loaded"
    /\ \E data \in Edits(callers[c].data) :
         callers' = [callers EXCEPT ![c].pc = "modified", ![c].data = data]
    /\ UNCHANGED <<db, clock, last, arg, pre, files, pc>>

CallerSaves ==
  \E c \in Callers :
    /\ clock < MaxClock
    /\ callers[c].pc = "modified"
    /\ LET r == save_json(db, SectsPath, callers[c].data, clock + 1)
       IN /\ db' = r.db
          /\ last' = [op |-> "save_json", ret |-> [raised |-> r.raised]]
    /\ clock' = clock + 1
    /\ pre' = db
    /\ arg' = [file_path |-> SectsPath, data |-> callers[c].data]
    /\ callers' = [callers EXCEPT ![c].pc = "saved"]
    /\ UNCHANGED <<files, pc>>

\* the sects stored before the callers start
CreateSectFirst ==
  \E s \in SectIds, l \in UserIds :
    /\ clock < MaxClock
    /\ callers = NoCallers
    /\ Call("create_sect", [sect_id |-> s, leader_id |-> l],
            create_sect(db, s, "Iron Sect", JStr(l), "", 1, 0, clock + 1))

NextInterleaved == CreateSectFirst \/ CallerLoads \/ CallerEdits \/ CallerSaves

SpecInterleaved == Init /\ [][NextInterleaved]_vars

\* both callers loaded before either saved, and both have saved
BothSavedAfterBothLoaded ==
  /\ last.op = "save_json"
  /\ \A c \in Callers : callers[c].pc = "saved" /\ ~callers[c].stale

\* C39: interleaved load/save is whole-document last-writer-wins.  When both
\* callers loaded before either saved, after the second save the stored sects
\* are the sects of the document saved last and each has the members that
\* document lists.
C39_LastWriterWins ==
  BothSavedAfterBothLoaded =>
    /\ DOMAIN db.sects = DocKeys(arg.data)
    /\ \A i \in 1..Len(arg.data) :
         {m.user_id : m \in get_sect_members(db, arg.data[i].k)}
           = {PyStr(arg.data[i].v.members[j]) : j \in 1..Len(arg.data[i].v.members)}

(***************************************************************************)
(* Actions: the stock of a store item                                      *)
(***************************************************************************)
StockChanges == {-5, -2, -1, 0, 1, 4}

UpdateStockBy ==
  \E change \in StockChanges :
    /\ clock < MaxClock
    /\ Call("update_store_item_stock", [item_name |-> "Sword", change |-> change],
            update_store_item_stock(db, "Sword", change))

NextStock == SetStoreItem \/ UpdateStockBy

SpecStock == Init /\ [][NextStock]_vars

\* C40: finite stock never turns unlimited.  A call other than set_store_item
\* leaves every item whose stock is 0 or more with a stock of 0 or more, so
\* no sequence of update_store_item_stock calls makes it -1 or negative.
C40_FiniteStockStaysFinite ==
  last.op # "set_store_item" =>
    \A item_name \in DOMAIN pre.store_items :
      pre.store_items[item_name].stock >= 0 =>
        /\ item_name \in DOMAIN db.store_items
        /\ db.store_items[item_name].stock >= 0

\* a decrement larger than the stock has run on an item with finite stock
C40_Witness ==
  /\ last.op = "update_store_item_stock"
  /\ arg.change < 0
  /\ arg.item_name \in DOMAIN pre.store_items
  /\ pre.store_items[arg.item_name].stock >= 0
  /\ pre.store_items[arg.item_name].stock + arg.change < 0
  /\ db.store_items[arg.item_name].stock = 0

=============================================================================
